---------------------------- MODULE Spec2Model ----------------------------
(***************************************************************************)
(* A model of the search core of server.js: the identifier classifier, the *)
(* relevance scorer, the index-navigation resolver, the universal page     *)
(* reference detector and the result-assembly path of a search request.    *)
(*                                                                         *)
(* JavaScript strings are TLA+ strings (sequences of characters); the      *)
(* regular expressions of the source are translated by a small             *)
(* backtracking matcher (Match) that tries alternatives in the order the   *)
(* JavaScript engine does, so that captures and lastIndex are those of the *)
(* source.                                                                 *)
(***************************************************************************)
EXTENDS Integers, Sequences, FiniteSets, TLC

VARIABLES
    pc,         \* position of the function call or request handler
    args,       \* the arguments of the call in progress
    ret,        \* the value returned by the call
    documents,  \* sessionData.documents of the request's session
    matches     \* the result list carried along the result-assembly path;
                \* sessionData.uploadedFiles where requests change the session;
                \* imageCache where pages are rendered

vars == <<pc, args, ret, documents, matches>>

Null == "<null>"

(***************************************************************************)
(* Strings                                                                 *)
(***************************************************************************)
Digit == {"0", "1", "2", "3", "4", "5", "6", "7", "8", "9"}
UpperChars == "ABCDEFGHIJKLMNOPQRSTUVWXYZ"
LowerChars == "abcdefghijklmnopqrstuvwxyz"
DigitChars == "0123456789"
Upper == {SubSeq(UpperChars, i, i) : i \in 1..26}
Lower == {SubSeq(LowerChars, i, i) : i \in 1..26}
Letter == Upper \cup Lower
Space == {" ", "\n", "\t"}
WordChar == Letter \cup Digit \cup {"_"}
NL == "\n"

Min(a, b) == IF a < b THEN a ELSE b
Max(a, b) == IF a > b THEN a ELSE b

CharAt(s, i) == SubSeq(s, i, i)

\* n if cond holds, 0 otherwise
Bonus(cond, n) == IF cond THEN n ELSE 0

\* String.prototype.toLowerCase
\* r, with v evaluated first. The statements of the source run in order; TLC
\* evaluates an argument where it is first used, nested in that evaluation
Having(v, r) == CASE v = v -> r

LowerOf(c) ==
    IF c \in Upper
    THEN CharAt(LowerChars, CHOOSE i \in 1..26 : CharAt(UpperChars, i) = c)
    ELSE c

RECURSIVE toLowerCase(_)
toLowerCase(s) ==
    IF Len(s) <= 1 THEN LowerOf(s)
    ELSE toLowerCase(SubSeq(s, 1, Len(s) \div 2))
            \o toLowerCase(SubSeq(s, (Len(s) \div 2) + 1, Len(s)))

\* String.prototype.includes
includes(s, sub) ==
    \E i \in 0..(Len(s) - Len(sub)) : SubSeq(s, i + 1, i + Len(sub)) = sub

\* String.prototype.indexOf, 0-based, -1 when absent
indexOf(s, sub) ==
    IF includes(s, sub)
    THEN CHOOSE i \in 0..(Len(s) - Len(sub)) :
            /\ SubSeq(s, i + 1, i + Len(sub)) = sub
            /\ \A j \in 0..(i - 1) : SubSeq(s, j + 1, j + Len(sub)) # sub
    ELSE -1

\* String.prototype.trim
trim(s) ==
    LET Blank(a, b) == \A j \in a..b : CharAt(s, j) \in Space
    IN  IF Blank(1, Len(s)) THEN ""
        ELSE SubSeq(s,
                CHOOSE i \in 1..Len(s) : CharAt(s, i) \notin Space /\ Blank(1, i - 1),
                CHOOSE i \in 1..Len(s) : CharAt(s, i) \notin Space /\ Blank(i + 1, Len(s)))

\* String.prototype.substring(0, n)
substring0(s, n) == SubSeq(s, 1, Min(n, Len(s)))

\* String.prototype.split("\n")
RECURSIVE splitLines(_)
splitLines(s) ==
    LET k == indexOf(s, NL)
    IN  IF k = -1 THEN <<s>>
        ELSE <<SubSeq(s, 1, k)>> \o splitLines(SubSeq(s, k + 2, Len(s)))

\* Array.prototype.join(sep)
RECURSIVE join(_, _)
join(seq, sep) ==
    IF Len(seq) = 0 THEN ""
    ELSE IF Len(seq) = 1 THEN seq[1]
    ELSE join(SubSeq(seq, 1, Len(seq) \div 2), sep) \o sep
            \o join(SubSeq(seq, (Len(seq) \div 2) + 1, Len(seq)), sep)

DigitValue(c) == (CHOOSE i \in 1..10 : CharAt(DigitChars, i) = c) - 1

\* parseInt of a string of decimal digits
RECURSIVE parseInt(_)
parseInt(s) ==
    IF s = "" THEN 0
    ELSE 10 * parseInt(SubSeq(s, 1, Len(s) - 1)) + DigitValue(CharAt(s, Len(s)))

\* Number.prototype.toString of a natural number
RECURSIVE toString(_)
toString(n) ==
    IF n < 10 THEN CharAt(DigitChars, n + 1)
    ELSE toString(n \div 10) \o CharAt(DigitChars, (n % 10) + 1)

\* s repeated n times
RECURSIVE Rep(_, _)
Rep(s, n) == IF n = 0 THEN "" ELSE s \o Rep(s, n - 1)

\* all strings over the characters of the set A of length at most n
RECURSIVE StringsUpTo(_, _)
StringsUpTo(A, n) ==
    IF n = 0 THEN {""}
    ELSE LET shorter == StringsUpTo(A, n - 1)
         IN  shorter \cup {s \o c : s \in shorter, c \in A}

\* all sequences over S of length 1..n
RECURSIVE SeqsUpTo(_, _)
SeqsUpTo(S, n) ==
    IF n = 0 THEN {}
    ELSE LET shorter == SeqsUpTo(S, n - 1)
         IN  {<<x>> : x \in S} \cup shorter \cup {Append(q, x) : q \in shorter, x \in S}

(***************************************************************************)
(* Regular expressions.  A pattern is a sequence of elements, matched left *)
(* to right with backtracking in the engine's order:                       *)
(*   C(cls, lo, hi)  lo..hi characters of cls, greedy                      *)
(*   Alt(<<p1, p2>>) p1 | p2, p1 tried first                               *)
(*   Cap             the start of capture group 1                          *)
(*   CapEnd          the end of capture group 1                            *)
(*   WB  \b    BOL  ^    EOL  $    BOLM, EOLM  ^ and $ under the m flag     *)
(* Match(s, i, pat) is the match of pat at position i (1-based) of s: the  *)
(* record of the position after the match and the captured span, or        *)
(* NoMatch.                                                                *)
(***************************************************************************)
\* no upper limit of a quantifier (*, +, {n,})
Inf == 1000 * 1000

C(cls, lo, hi) == [t |-> "cls", cls |-> cls, neg |-> FALSE, lo |-> lo, hi |-> hi]
\* lo..hi characters not in cls, greedy: [^...], and . as NC({NL}, lo, hi)
NC(cls, lo, hi) == [t |-> "cls", cls |-> cls, neg |-> TRUE, lo |-> lo, hi |-> hi]
Alt(ps) == [t |-> "alt", alts |-> ps]
Cap == [t |-> "cap"]
CapEnd == [t |-> "capend"]
WB == [t |-> "wb"]
BOL == [t |-> "bol"]
EOL == [t |-> "eol"]
BOLM == [t |-> "bolm"]
EOLM == [t |-> "eolm"]

\* a literal, case-sensitive or (flag i) not: a pattern of one element
Lit(str) == <<[t |-> "lit", str |-> str, ignoreCase |-> FALSE]>>
LitI(str) == <<[t |-> "lit", str |-> toLowerCase(str), ignoreCase |-> TRUE]>>

NoMatch == [end |-> 0, cs |-> 0, ce |-> 0]

IsWordAt(s, i) == i >= 1 /\ i <= Len(s) /\ CharAt(s, i) \in WordChar

\* the length of the run of characters of the class e at position i, at most hi
RunLen(s, i, e, hi) ==
    LET last == Min(Len(s), i + hi - 1)
        InClass(j) == (CharAt(s, j) \in e.cls) # e.neg
        stop == CHOOSE j \in i..(last + 1) :
                    /\ j = last + 1 \/ ~InClass(j)
                    /\ \A k \in i..(j - 1) : InClass(k)
    IN  stop - i

RECURSIVE MatchFrom(_, _, _, _, _)
RECURSIVE TryAlts(_, _, _, _, _, _, _)

\* the first element of pat (a class) taking n characters at i, then the rest
\* of pat: the match for the largest n of least..most that has one
TryCount(s, i, pat, cs, ce, most, least) ==
    LET Fits(n) == MatchFrom(s, i + n, Tail(pat), cs, ce).end # 0
        Of(n) == IF n < least THEN NoMatch
                 ELSE MatchFrom(s, i + n, Tail(pat), cs, ce)
        \* the counts from most down to least, then least - 1 for no match
        Count(d) == most - d
    IN  IF most < least THEN NoMatch
        ELSE Of(Count(CHOOSE d \in 0..(most - least + 1) :
                        /\ Count(d) < least \/ Fits(Count(d))
                        /\ \A e \in 0..(d - 1) : ~Fits(Count(e))))

\* the match of the first of the alternatives alts[k], alts[k + 1], ... that,
\* followed by rest, matches at i
TryAlts(s, i, alts, k, rest, cs, ce) ==
    LET Fits(a) == MatchFrom(s, i, alts[a] \o rest, cs, ce).end # 0
        Of(a) == IF a > Len(alts) THEN NoMatch
                 ELSE MatchFrom(s, i, alts[a] \o rest, cs, ce)
    IN  Of(CHOOSE a \in k..(Len(alts) + 1) :
                /\ a = Len(alts) + 1 \/ Fits(a)
                /\ \A b \in k..(a - 1) : ~Fits(b))

MatchFrom(s, i, pat, cs, ce) ==
    IF Len(pat) = 0 THEN [end |-> i, cs |-> cs, ce |-> IF ce = 0 THEN i ELSE ce]
    ELSE LET e == pat[1]
             rest == Tail(pat)
             If(cond) == IF cond THEN MatchFrom(s, i, rest, cs, ce) ELSE NoMatch
         IN  CASE e.t = "cls" ->
                    TryCount(s, i, pat, cs, ce, RunLen(s, i, e, e.hi), e.lo)
               [] e.t = "lit" ->
                    IF /\ i + Len(e.str) - 1 <= Len(s)
                       /\ e.str = IF e.ignoreCase
                                  THEN toLowerCase(SubSeq(s, i, i + Len(e.str) - 1))
                                  ELSE SubSeq(s, i, i + Len(e.str) - 1)
                    THEN MatchFrom(s, i + Len(e.str), rest, cs, ce)
                    ELSE NoMatch
               [] e.t = "alt" -> TryAlts(s, i, e.alts, 1, rest, cs, ce)
               [] e.t = "cap" -> MatchFrom(s, i, rest, i, ce)
               [] e.t = "capend" -> MatchFrom(s, i, rest, cs, i)
               [] e.t = "wb" -> If(IsWordAt(s, i - 1) # IsWordAt(s, i))
               [] e.t = "bol" -> If(i = 1)
               [] e.t = "eol" -> If(i = Len(s) + 1)
               [] e.t = "bolm" -> If(i = 1 \/ CharAt(s, i - 1) = NL)
               [] e.t = "eolm" -> If(i = Len(s) + 1 \/ CharAt(s, i) = NL)

Match(s, i, pat) == MatchFrom(s, i, pat, 0, 0)

\* the matches of pat at the positions from..Len(s) + 1 of s
MatchesFrom(s, from, pat) == [i \in from..(Len(s) + 1) |-> Match(s, i, pat)]

\* of the matches ms at the positions from..last, the one at the leftmost
\* position that has one
Leftmost(ms, from, last) ==
    LET Found(start, r) == [start |-> start, end |-> r.end, cs |-> r.cs, ce |-> r.ce]
        At(start) == IF start > last THEN [start |-> 0, end |-> 0, cs |-> 0, ce |-> 0]
                     ELSE Found(start, ms[start])
    IN  At(CHOOSE i \in from..Max(from, last + 1) :
                /\ i > last \/ ms[i].end # 0
                /\ \A j \in from..(i - 1) : ms[j].end = 0)

\* RegExp.prototype.exec from lastIndex `from` (1-based)
Exec(s, from, pat) == Leftmost(MatchesFrom(s, from, pat), from, Len(s) + 1)

\* RegExp.prototype.test
Test(s, pat) == Having(s, Exec(s, 1, pat).end # 0)

\* the text of capture group 1 of a match
Group1(s, m) == SubSeq(s, m.cs, m.ce - 1)

\* the matches of a g-flag pattern, as its exec loop or matchAll yields them
RECURSIVE ExecAll(_, _, _)
ExecAll(s, from, pat) ==
    LET After(m) ==
            IF m.end = 0 THEN <<>>
            ELSE <<m>> \o ExecAll(s, IF m.end = m.start THEN m.end + 1 ELSE m.end, pat)
    IN  Having(s, After(Exec(s, from, pat)))

(***************************************************************************)
(* IndexNavigationService: the identifier classifier                       *)
(***************************************************************************)
AZ09 == Upper \cup Digit

\* /^\d{3,5}$/
itemNumberPattern == <<BOL, C(Digit, 3, 5), EOL>>

isItemNumber(numberString) == Test(trim(numberString), itemNumberPattern)

partNumberPatterns == <<
    <<BOL, C(Upper, 1, 3), C(Digit, 3, 8), EOL>>,
    <<BOL, C(Upper, 1, 3), C({"-"}, 0, 1), C(Digit, 3, 8), EOL>>,
    <<BOL, C(Digit, 2, 3), C(Upper, 1, 3), C(Digit, 2, 6), EOL>>,
    <<BOL, C(Upper, 2, 4), C(Digit, 2, 3), C(Upper, 0, 3), C(Digit, 0, 4), EOL>>,
    <<BOL, C(AZ09, 6, 12), EOL>> >>

\* mutant: the generic alphanumeric pattern accepts 3 characters and more
isPartNumber_Generic3(numberString) ==
    \/ \E k \in 1..Len(partNumberPatterns) :
            Test(trim(numberString), partNumberPatterns[k])
    \/ Test(trim(numberString), <<BOL, C(AZ09, 3, 12), EOL>>)

isPartNumber(numberString) ==
    \E k \in 1..Len(partNumberPatterns) :
        Test(trim(numberString), partNumberPatterns[k])

BaseConfidence == 50
MaxConfidence == 100

\* without the cap at 100
UncappedPartNumberConfidence(line, partNumber) ==
    LET lowerLine == toLowerCase(line)
    IN  BaseConfidence
        + Bonus(includes(lowerLine, "part no") \/ includes(lowerLine, "part number"), 30)
        + Bonus(includes(lowerLine, "p/n"), 25)
        + Bonus(includes(lowerLine, "order"), 20)
        + Bonus(includes(lowerLine, "catalog"), 15)
        + Bonus(includes(lowerLine, "specification"), 10)
        + Bonus(includes(lowerLine, "model"), 10)
        + Bonus(Test(partNumber, <<BOL, C(Upper, 2, 3), C(Digit, 5, 8), EOL>>), 20)
        + Bonus(Len(partNumber) >= 8, 10)

\* mutant: the "part no" label adds nothing
calculatePartNumberConfidence_NoLabel(line, partNumber) ==
    LET lowerLine == toLowerCase(line)
        labelled == includes(lowerLine, "part no") \/ includes(lowerLine, "part number")
    IN  Min(UncappedPartNumberConfidence(line, partNumber)
               - (IF labelled THEN 30 ELSE 0), MaxConfidence)

\* mutant: Math.min(confidence, 100) left out
calculatePartNumberConfidence_Uncapped(line, partNumber) ==
    UncappedPartNumberConfidence(line, partNumber)

calculatePartNumberConfidence(line, partNumber) ==
    Min(UncappedPartNumberConfidence(line, partNumber), MaxConfidence)

AZ09Dash == AZ09 \cup Lower \cup {"-"}
SpaceColon == Space \cup {":"}

\* the five patterns of extractPartNumbersFromPage, in the order it applies them
partNumberMatches == <<
    \* /(?:part\s*(?:no|number|#)[\s:]+)([A-Z0-9-]{6,12})/gi
    LitI("part") \o <<C(Space, 0, Inf), Alt(<<LitI("no"), LitI("number"), Lit("#")>>),
                     C(SpaceColon, 1, Inf), Cap, C(AZ09Dash, 6, 12)>>,
    \* /(?:p\/n[\s:]+)([A-Z0-9-]{6,12})/gi
    LitI("p/n") \o <<C(SpaceColon, 1, Inf), Cap, C(AZ09Dash, 6, 12)>>,
    \* /(?:order[\s:]+)([A-Z0-9-]{6,12})/gi
    LitI("order") \o <<C(SpaceColon, 1, Inf), Cap, C(AZ09Dash, 6, 12)>>,
    \* /\b([A-Z]{1,3}\d{3,8})\b/g
    <<WB, Cap, C(Upper, 1, 3), C(Digit, 3, 8), CapEnd, WB>>,
    \* /\b([A-Z]{2,4}\d{2,3}[A-Z]{0,3}\d{0,4})\b/g
    <<WB, Cap, C(Upper, 2, 4), C(Digit, 2, 3), C(Upper, 0, 3), C(Digit, 0, 4),
      CapEnd, WB>> >>

\* the concatenation of a sequence of sequences
RECURSIVE Flatten(_)
Flatten(ss) ==
    IF Len(ss) = 0 THEN <<>>
    ELSE IF Len(ss) = 1 THEN ss[1]
    ELSE Flatten(SubSeq(ss, 1, Len(ss) \div 2))
            \o Flatten(SubSeq(ss, (Len(ss) \div 2) + 1, Len(ss)))

\* the candidates one pattern finds on one line (the while loop over exec)
CandidatesOfPattern(line, i, pattern) ==
    LET Accepted(partNumber) == isPartNumber(partNumber) /\ ~isItemNumber(partNumber)
        Entry(partNumber) ==
            IF Accepted(partNumber)
            THEN <<[partNumber |-> partNumber,
                    lineNumber |-> i,
                    context    |-> trim(line),
                    confidence |-> calculatePartNumberConfidence(line, partNumber)]>>
            ELSE <<>>
        Entries(ms) == Flatten([k \in 1..Len(ms) |-> Entry(Group1(line, ms[k]))])
    IN  Entries(ExecAll(line, 1, pattern))

CandidatesOfLine(line, i) ==
    Flatten([k \in 1..Len(partNumberMatches) |->
                CandidatesOfPattern(line, i, partNumberMatches[k])])

\* Array.prototype.sort((a, b) => keys[b] - keys[a]): stable, descending; keys[i]
\* is the sort key of seq[i]
SortDesc(seq, keys) ==
    LET before(j, i) == keys[j] > keys[i] \/ (keys[j] = keys[i] /\ j < i)
        rank(i) == 1 + Cardinality({j \in 1..Len(seq) : before(j, i)})
    IN  [k \in 1..Len(seq) |-> seq[CHOOSE i \in 1..Len(seq) : rank(i) = k]]

\* the subsequence of seq at the indices in keep
Pick(seq, keep, i) ==
    LET kept == {j \in keep : j >= i /\ j <= Len(seq)}
    IN  [k \in 1..Cardinality(kept) |->
            seq[CHOOSE j \in kept : Cardinality({h \in kept : h <= j}) = k]]

\* .filter((item, index, arr) => arr.findIndex(same key) === index); keys[i] is
\* what the comparison reads of arr[i]
FirstOccurrences(arr, keys) ==
    Pick(arr, {i \in 1..Len(arr) : \A j \in 1..(i - 1) : keys[j] # keys[i]}, 1)

\* the partNumber of each entry
PartNumbersOf(arr) == [k \in 1..Len(arr) |-> arr[k].partNumber]

UnsortedPartNumbers(pageContent) ==
    LET OfLines(lines) == Flatten([i \in 1..Len(lines) |-> CandidatesOfLine(lines[i], i)])
    IN  OfLines(splitLines(pageContent))

\* mutant: duplicates are removed without sorting by confidence first
extractPartNumbersFromPage_NoSort(pageContent) ==
    IF pageContent = "" \/ pageContent = Null THEN <<>>
    ELSE LET Unique(partNumbers) ==
                 FirstOccurrences(partNumbers, PartNumbersOf(partNumbers))
         IN  Unique(UnsortedPartNumbers(pageContent))

extractPartNumbersFromPage(pageContent) ==
    IF pageContent = "" \/ pageContent = Null THEN <<>>
    ELSE LET Sorted(partNumbers) ==
                 SortDesc(partNumbers,
                          [k \in 1..Len(partNumbers) |-> partNumbers[k].confidence])
             Unique(sorted) == FirstOccurrences(sorted, PartNumbersOf(sorted))
         IN  Unique(Sorted(UnsortedPartNumbers(pageContent)))

(***************************************************************************)
(* IndexNavigationService: index pages and page references                 *)
(*                                                                         *)
(* A document is a record [pages, pageObjects, hasTextMap, textMap, text].  *)
(* pages maps a page number to the page's text; a page number outside its  *)
(* domain is a page the array does not hold (doc.pages[n - 1] is           *)
(* undefined).  pageObjects tells what the array holds: the page objects   *)
(* {pageNumber, text, lines} that extractTextFromPDF builds (TRUE), or the *)
(* page strings that the methods of this service read (FALSE).  hasTextMap *)
(* is whether doc.textMap is defined.                                      *)
(***************************************************************************)
Dots3 == C({"."}, 3, Inf)

\* /(\w.*){3,}\.{3,}\s*\d{1,4}/m: a word character opening a stretch of one
\* line that holds three word characters at least, then three dots, white
\* space and a digit
ManyWordsThenDots(content) ==
    \E p \in 1..Len(content) : \E d \in (p + 1)..Len(content) :
        /\ CharAt(content, p) \in WordChar
        /\ ~includes(SubSeq(content, p, d - 1), NL)
        /\ Cardinality({k \in p..(d - 1) : CharAt(content, k) \in WordChar}) >= 3
        /\ Match(content, d, <<Dots3, C(Space, 0, Inf), C(Digit, 1, 4)>>).end # 0

indexPatterns == <<
    Lit("table") \o <<C(Space, 1, Inf)>> \o Lit("of") \o <<C(Space, 1, Inf)>>
        \o Lit("contents"),
    Lit("contents"),
    Lit("index"),
    Lit("parts") \o <<C(Space, 1, Inf)>> \o Lit("list"),
    Lit("component") \o <<C(Space, 1, Inf)>> \o Lit("list"),
    \* /\.{3,}\s*\d{1,4}$/m
    <<Dots3, C(Space, 0, Inf), C(Digit, 1, 4), EOLM>> >>

\* /\.{3,}\s*\d{1,4}\s*$/ and /\.{3,}\s*(\d{1,4})\s*$/
dotsThenPageNumber == <<Dots3, C(Space, 0, Inf), Cap, C(Digit, 1, 4), CapEnd,
                        C(Space, 0, Inf), EOL>>

isIndexPage(pageContent, pageNumber) ==
    IF pageContent = "" \/ pageContent = Null THEN FALSE
    ELSE LET hasIndexPattern(content) ==
                \/ \E k \in 1..Len(indexPatterns) : Test(content, indexPatterns[k])
                \/ ManyWordsThenDots(content)
             linesWithPageNumbers(lines) ==
                Cardinality({i \in 1..Len(lines) : Test(trim(lines[i]), dotsThenPageNumber)})
             isLikelyIndex == linesWithPageNumbers(splitLines(pageContent)) >= 3
         IN  hasIndexPattern(toLowerCase(pageContent)) \/ isLikelyIndex

\* the page number an index line ends with, 0 for null (parseInt yields a
\* number, and the caller tests it for truthiness)
extractPageReference(indexLine) ==
    LET pageRefMatch == Exec(indexLine, 1, dotsThenPageNumber)
        \* /\.\.\.\s*(\d{1,4})\s*$/
        altMatch == Exec(indexLine, 1,
                        <<C({"."}, 3, 3), C(Space, 0, Inf), Cap, C(Digit, 1, 4), CapEnd,
                          C(Space, 0, Inf), EOL>>)
    IN  IF pageRefMatch.end # 0 THEN parseInt(Group1(indexLine, pageRefMatch))
        ELSE IF altMatch.end # 0 THEN parseInt(Group1(indexLine, altMatch))
        ELSE 0

\* the text of doc.pages[pageNumber - 1], "" for a page the array does not hold
PageAt(doc, pageNumber) ==
    IF pageNumber \in DOMAIN doc.pages THEN doc.pages[pageNumber] ELSE ""

\* whether doc.pages[pageNumber - 1] is truthy: an object, or a string other
\* than ""
HasPage(doc, pageNumber) ==
    /\ pageNumber \in DOMAIN doc.pages
    /\ doc.pageObjects \/ doc.pages[pageNumber] # ""

\* the first document that holds the page, by index
RECURSIVE FirstDocWith(_, _, _)
FirstDocWith(docs, pageNumber, k) ==
    IF k > Len(docs) THEN 0
    ELSE IF HasPage(docs[k], pageNumber) THEN k
    ELSE FirstDocWith(docs, pageNumber, k + 1)

\* the page of the first document that holds it if that page is a string, ""
\* otherwise
getPageContent(docs, pageNumber) ==
    LET OfDoc(k) ==
            IF k = 0 \/ docs[k].pageObjects THEN "" ELSE PageAt(docs[k], pageNumber)
    IN  OfDoc(FirstDocWith(docs, pageNumber, 1))

\* the entry of findRelevantPartNumber's scoredPartNumbers for pn
relevanceScoreOf(pn, contextLine, searchTerm) ==
    pn.confidence
    + (IF includes(contextLine, pn.partNumber) THEN 40 ELSE 0)
    + (IF includes(toLowerCase(contextLine), "filter")
          /\ includes(toLowerCase(searchTerm), "filter") THEN 20 ELSE 0)
    + (IF includes(toLowerCase(contextLine), "oil")
          /\ includes(toLowerCase(searchTerm), "oil") THEN 20 ELSE 0)

\* null or undefined where a candidate is expected
NoPartNumber == [partNumber |-> Null, lineNumber |-> 0, context |-> "", confidence |-> 0]

\* the best candidate, NoPartNumber when there is none (the relevanceScore
\* field the code adds to the copy is not read by any caller)
findRelevantPartNumber(partNumbers, contextLine, searchTerm) ==
    IF Len(partNumbers) = 0 THEN NoPartNumber
    ELSE SortDesc(partNumbers,
                  [k \in 1..Len(partNumbers) |->
                      relevanceScoreOf(partNumbers[k], contextLine, searchTerm)])[1]

NotFound == [found |-> FALSE, error |-> Null]

\* pageContent.split is not a function: the page is an object
TypeError == [found |-> FALSE, error |-> "TypeError"]

\* the lines of a page that hold the search term in the same case
LinesWithTerm_SameCase(pageLines, searchTerm) ==
    {i \in 1..Len(pageLines) : includes(pageLines[i], searchTerm)}

\* the lines of a page that hold the search term
LinesWithTerm(pageLines, searchTerm) ==
    {i \in 1..Len(pageLines) :
        includes(toLowerCase(pageLines[i]), toLowerCase(searchTerm))}

\* what findContentOnPage returns for the page of one document
ContentOfPage(pageContent, targetPageNumber, searchTerm) ==
    LET Content(partNumbers, pageLines, hits, i) ==
        IF hits # {}
        THEN [found |-> TRUE,
              pageNumber |-> targetPageNumber,
              lineNumber |-> i,
              content |-> pageLines[i],
              context |-> join(SubSeq(pageLines, Max(1, i - 2),
                                      Min(Len(pageLines), i + 2)), NL),
              partNumbers |-> partNumbers,
              relevantPartNumber |->
                  findRelevantPartNumber(partNumbers, pageLines[i], searchTerm)]
        ELSE IF Len(partNumbers) > 0
        THEN [found |-> TRUE,
              pageNumber |-> targetPageNumber,
              lineNumber |-> 1,
              content |-> "Page " \o toString(targetPageNumber)
                              \o " contains related part information",
              context |-> join(SubSeq(pageLines, 1, Min(Len(pageLines), 5)), NL),
              partNumbers |-> partNumbers,
              relevantPartNumber |-> partNumbers[1]]
        ELSE NotFound
        FirstOf(hits) == CHOOSE h \in hits : \A g \in hits : h <= g
        OfHits(partNumbers, pageLines, hits) ==
            Content(partNumbers, pageLines, hits, FirstOf(hits))
        OfLines(partNumbers, pageLines) ==
            OfHits(partNumbers, pageLines, LinesWithTerm(pageLines, searchTerm))
    IN  OfLines(extractPartNumbersFromPage(pageContent), splitLines(pageContent))

RECURSIVE FindContentFrom(_, _, _, _)
FindContentFrom(docs, targetPageNumber, searchTerm, k) ==
    IF k > Len(docs) THEN NotFound
    ELSE LET pageContent == PageAt(docs[k], targetPageNumber)
             Found(r) ==
                IF r.found THEN r
                ELSE FindContentFrom(docs, targetPageNumber, searchTerm, k + 1)
         IN  IF ~docs[k].hasTextMap \/ ~HasPage(docs[k], targetPageNumber)
             THEN FindContentFrom(docs, targetPageNumber, searchTerm, k + 1)
             ELSE IF docs[k].pageObjects THEN TypeError
             ELSE Found(ContentOfPage(pageContent, targetPageNumber, searchTerm))

findContentOnPage(docs, targetPageNumber, searchTerm) ==
    FindContentFrom(docs, targetPageNumber, searchTerm, 1)

\* a || b || c of strings, where null and "" are falsy
OrElse(a, b) == IF a # Null /\ a # "" THEN a ELSE b

\* the page whose content is looked up for a reference
TargetPageOf(referencedPage) ==
    IF includes(toString(referencedPage), "214") THEN 214 ELSE referencedPage

\* the location processSearchResults writes into a redirected result
RedirectedLocation(result, contentResult) ==
    LET originalMatch == OrElse(result.partName, OrElse(result.partNo, ""))
        rel == contentResult.relevantPartNumber
    IN  [pageNumber |-> contentResult.pageNumber,
         lineNumber |-> contentResult.lineNumber,
         context |-> contentResult.context,
         section |-> "Page " \o toString(contentResult.pageNumber) \o ", Line "
                         \o toString(contentResult.lineNumber),
         yPosition |-> contentResult.lineNumber * 12,
         isFollowedFromIndex |-> TRUE,
         indexPageNumber |-> result.location.pageNumber,
         originalIndexPage |-> 0,
         itemNumber |-> IF isItemNumber(originalMatch) THEN originalMatch ELSE Null,
         actualPartNumber |-> rel.partNumber,
         partNumbers |-> contentResult.partNumbers,
         partNumberConfidence |-> rel.confidence]

\* the body of processSearchResults's loop: the entry pushed for one result,
\* or the error thrown
processSearchResult(result, docs, originalQuery) ==
    LET location == result.location
        Kept == [error |-> Null, entry |-> result]
        isActualPartNumber(rel) == rel # NoPartNumber /\ isPartNumber(rel.partNumber)
        Redirected(contentResult) ==
            IF contentResult.found
            THEN [error |-> Null,
                  entry |-> [result EXCEPT
                    !.partNo = IF isActualPartNumber(contentResult.relevantPartNumber)
                               THEN contentResult.relevantPartNumber.partNumber ELSE @,
                    !.location = RedirectedLocation(result, contentResult)]]
            ELSE [Kept EXCEPT !.error = contentResult.error]
        Followed(referencedPage) ==
            IF referencedPage # 0
            THEN Redirected(findContentOnPage(docs, TargetPageOf(referencedPage),
                    OrElse(result.partName, OrElse(result.partNo, originalQuery))))
            ELSE Kept
        OfPage(pageContent) ==
            IF isIndexPage(pageContent, location.pageNumber) /\ location.context # ""
            THEN Followed(extractPageReference(location.context))
            ELSE Kept
    IN  IF location.pageNumber = 0 THEN Kept
        ELSE OfPage(getPageContent(docs, location.pageNumber))

\* mutant: the entries are pushed at the front of enhancedResults
processSearchResults_Unshifted(searchResults, docs, originalQuery) ==
    LET Outcome(pushed) ==
            [error |-> IF \E k \in 1..Len(pushed) : pushed[k].error # Null
                       THEN "TypeError" ELSE Null,
             value |-> [k \in 1..Len(pushed) |-> pushed[Len(pushed) + 1 - k].entry]]
    IN  Outcome([k \in 1..Len(searchResults) |->
                    processSearchResult(searchResults[k], docs, originalQuery)])

\* the list the promise of processSearchResults resolves with, or the error it
\* rejects with
processSearchResults(searchResults, docs, originalQuery) ==
    LET Outcome(pushed) ==
            [error |-> IF \E k \in 1..Len(pushed) : pushed[k].error # Null
                       THEN "TypeError" ELSE Null,
             value |-> [k \in 1..Len(pushed) |-> pushed[k].entry]]
    IN  Outcome([k \in 1..Len(searchResults) |->
                    processSearchResult(searchResults[k], docs, originalQuery)])

(***************************************************************************)
(* Calls of the identifier classifier.  The arguments are drawn from:      *)
(*   - every string of at most MaxValueLen characters over ValueAlphabet   *)
(*     and some identifiers of the manuals (classify);                     *)
(*   - pages of at most MaxPageLines lines of LinePool, and pages that     *)
(*     hold a labelled line (extract).                                     *)
(***************************************************************************)
MaxValueLen == 6
MaxPageLines == 2

ValueAlphabet == {"A", "7", "-", "a"}

NamedValues ==
    {"RE508960", "8843", " 8843 ", "12345", "JD123456", "AT123ABC", "RE-508960",
     "12ABC456", "R508960", "1234567890123", "ABCDEFGHIJKLM"}

ClassifyValues == StringsUpTo(ValueAlphabet, MaxValueLen) \cup NamedValues

\* the label of a part number, as the manuals write it
Labels == {"Part No: ", "Part Number: ", "PART NO: ", "part no ", "Part No. "}

\* the values of the shape 1-3 letters then 3-8 digits
ShapeValues == {SubSeq("RET", 1, a) \o SubSeq("50896012", 1, b) : a \in 1..3, b \in 3..8}

Suffixes == {"", " Engine Oil Filter"}

LabelledLines == {l \o v \o x : l \in Labels, v \in ShapeValues, x \in Suffixes}

LinePool ==
    {"Part No: RE508960 Engine Oil Filter",
     "RE508960 Filter element",
     "Order: AB1234",
     "AB1234 Seal RE508960",
     "Part Number: AB1234 model",
     "P/N: AT123456 see catalog",
     "8843 Engine Oil Filter",
     "Item 12345 AT123456",
     "Part No: 884312",
     "Order: 12345-"}

PoolPages == {join(q, NL) : q \in SeqsUpTo(LinePool, MaxPageLines)}

LabelledPages ==
    LabelledLines
    \cup {l \o NL \o "Part No: " \o v : l \in {"RE508960 Filter element", "AB1234 Seal RE508960"},
                                       v \in ShapeValues}
    \cup {v \o " Seal" \o NL \o l : l \in LabelledLines, v \in {"R508", "RE508960"}}

ExtractPages == PoolPages \cup LabelledPages \cup {""}

InitClassify ==
    /\ pc = "classify"
    /\ args \in [numberString : ClassifyValues]
    /\ ret = Null
    /\ documents = <<>>
    /\ matches = <<>>

InitExtract ==
    /\ pc = "extract"
    /\ args \in [pageContent : ExtractPages]
    /\ ret = Null
    /\ documents = <<>>
    /\ matches = <<>>

\* isItemNumber(v) and isPartNumber(v) of one value
Classify ==
    /\ pc = "classify"
    /\ ret' = [item |-> isItemNumber(args.numberString),
               part |-> isPartNumber(args.numberString)]
    /\ pc' = "classified"
    /\ UNCHANGED <<args, documents, matches>>

\* extractPartNumbersFromPage(pageContent)
ExtractPartNumbers ==
    /\ pc = "extract"
    /\ ret' = extractPartNumbersFromPage(args.pageContent)
    /\ pc' = "extracted"
    /\ UNCHANGED <<args, documents, matches>>

InitIdentifier == InitClassify \/ InitExtract
NextIdentifier == Classify \/ ExtractPartNumbers
SpecIdentifier == InitIdentifier /\ [][NextIdentifier]_vars

(***************************************************************************)
(* Properties of the identifier classifier                                 *)
(***************************************************************************)

\* C2: a value of the item-number shape (3-5 digits) is never a part number,
\* extractPartNumbersFromPage emits no item-shaped value, and "RE508960" is a
\* part number and not an item number.
C2_ItemNumberNeverPartNumber ==
    /\ pc = "classified" => ~(ret.item /\ ret.part)
    /\ pc = "classified" /\ trim(args.numberString) = "RE508960"
          => ret.part /\ ~ret.item
    /\ pc = "extracted"
          => \A k \in 1..Len(ret) :
                ~Test(ret[k].partNumber, <<BOL, C(Digit, 3, 5), EOL>>)

C2_Witness ==
    \/ pc = "classified" /\ args.numberString = " 8843 " /\ ret.item /\ ~ret.part
    \/ pc = "classified" /\ args.numberString = "RE508960" /\ ret.part
    \/ pc = "extracted" /\ args.pageContent = "8843 Engine Oil Filter\nItem 12345 AT123456"
          /\ Len(ret) = 1

\* C9: a line with a "Part No" / "Part Number" label followed by a value of
\* 1-3 letters then 3-8 digits yields a candidate with that value whose
\* confidence is between 80 and 100.
C9_LabelledConfidence ==
    pc = "extracted" =>
        \A l \in Labels, v \in ShapeValues, x \in Suffixes :
            (\E i \in 1..Len(splitLines(args.pageContent)) :
                splitLines(args.pageContent)[i] = l \o v \o x)
            => \E k \in 1..Len(ret) :
                  /\ ret[k].partNumber = v
                  /\ ret[k].confidence >= 80
                  /\ ret[k].confidence <= MaxConfidence

C9_Witness ==
    /\ pc = "extracted"
    /\ args.pageContent = "RE508960 Seal\nPart No: R508960 Engine Oil Filter"
    /\ \E k \in 1..Len(ret) : ret[k].partNumber = "R508960" /\ ret[k].confidence = 80

\* C10: the list of extractPartNumbersFromPage holds each value once, the
\* entry kept for a value has the highest confidence of the value's
\* occurrences on the page, and the list is in non-increasing confidence.
C10_DedupedSortedByConfidence ==
    pc = "extracted" =>
        LET found == UnsortedPartNumbers(args.pageContent)
        IN  /\ \A i, j \in 1..Len(ret) : i < j =>
                  /\ ret[i].partNumber # ret[j].partNumber
                  /\ ret[i].confidence >= ret[j].confidence
            /\ \A k \in 1..Len(ret) :
                  /\ \E n \in 1..Len(found) : found[n] = ret[k]
                  /\ \A n \in 1..Len(found) :
                        found[n].partNumber = ret[k].partNumber
                            => found[n].confidence <= ret[k].confidence

\* a value found twice, first with the lower confidence, and two values kept
C10_Witness ==
    /\ pc = "extracted"
    /\ Len(ret) >= 2
    /\ LET found == UnsortedPartNumbers(args.pageContent)
       IN  \E m, n \in 1..Len(found) :
              /\ m < n
              /\ found[m].partNumber = found[n].partNumber
              /\ found[m].confidence < found[n].confidence
              /\ \E k \in 1..Len(ret) : ret[k] = found[n]

(***************************************************************************)
(* Calls of the index-navigation resolver.  A document holds the pages 1,  *)
(* 2, 3, 214 and 1214; page 1 is an index page whose entry points at one   *)
(* of Targets.  The result list holds the results of the first lines of    *)
(* pages 1 and 2, MaxResults at most.                                      *)
(***************************************************************************)
MaxResults == 2

Targets == {2, 3, 214, 1214}

IndexLine(T) == "8843 Oil Filter ..... " \o toString(T)

Page1Texts == {IndexLine(T) : T \in Targets} \cup {"Contents\nOil Filter RE508960"}
Page2Texts == {"", IndexLine(3), "Oil Filter element\nPart No: RE508960"}
Page3Texts == {"", "Oil Filter AT123456"}
Page214Texts == {"", "Pump AB1234 kit", "Oil Filter JD123456"}
Page1214Texts == {"", "Oil Filter RE508960"}

PagesOf(p1, p2, p3, p214, p1214) ==
    LET all == (1 :> p1) @@ (2 :> p2) @@ (3 :> p3) @@ (214 :> p214) @@ (1214 :> p1214)
    IN  [n \in {m \in DOMAIN all : all[m] # ""} |-> all[n]]

NavDocuments ==
    {<<[pages |-> PagesOf(ps[1], ps[2], ps[3], ps[4], ps[5]), pageObjects |-> o,
        hasTextMap |-> TRUE, textMap |-> <<>>, text |-> ""]>> :
        ps \in Page1Texts \X Page2Texts \X Page3Texts \X Page214Texts \X Page1214Texts,
        o \in BOOLEAN}

\* the location search gives a result
Location(pageNumber, lineNumber, context) ==
    [pageNumber |-> pageNumber,
     lineNumber |-> lineNumber,
     context |-> context,
     section |-> "Page " \o toString(pageNumber) \o ", Line " \o toString(lineNumber),
     yPosition |-> 0,
     isFollowedFromIndex |-> FALSE,
     indexPageNumber |-> 0,
     originalIndexPage |-> 0,
     itemNumber |-> Null,
     actualPartNumber |-> Null,
     partNumbers |-> <<>>,
     partNumberConfidence |-> 0]

\* what a result names: a description and an item number, an item number
\* alone, a description alone
ResultNames ==
    {[partName |-> "Oil Filter", partNo |-> "8843"],
     [partName |-> "", partNo |-> "8843"],
     [partName |-> "Oil Filter", partNo |-> Null]}

\* one result per line of pages 1 and 2 of doc, in page and line order
LineResults(doc, name) ==
    LET OfPage(n) ==
            LET lines == splitLines(PageAt(doc, n))
            IN  IF PageAt(doc, n) = "" THEN <<>>
                ELSE [k \in 1..Len(lines) |->
                        [partNo |-> name.partNo, partName |-> name.partName,
                         relevance |-> 5, location |-> Location(n, k, lines[k])]]
    IN  OfPage(1) \o OfPage(2)

InitProcess ==
    /\ pc = "results"
    /\ documents \in NavDocuments
    /\ \E name \in ResultNames, n \in 1..MaxResults, q \in {"oil filter"} :
          LET all == LineResults(documents[1], name)
          IN  /\ matches = SubSeq(all, 1, Min(n, Len(all)))
              /\ args = [searchResults |-> matches, originalQuery |-> q]
    /\ ret = Null

\* processSearchResults(searchResults, documents, originalQuery), on the list
\* search returned and then once more on its own result
ProcessSearchResults ==
    /\ pc \in {"results", "processed"}
    /\ LET Settle(outcome) ==
               IF outcome.error # Null
               THEN pc' = "rejected" /\ ret' = Null /\ UNCHANGED matches
               ELSE /\ pc' = IF pc = "results" THEN "processed" ELSE "reprocessed"
                    /\ ret' = outcome.value
                    /\ matches' = outcome.value
       IN  Settle(processSearchResults(matches, documents, args.originalQuery))
    /\ args' = [args EXCEPT !.searchResults = matches]
    /\ UNCHANGED documents

\* a name, a dot leader written with or without spaces, a page number
Leaders == {" . . . . . . . . . . . ", " . . . ", " ..... ", " ...", "..", " "}
LeaderNames == {"Engine Oil Filter", "8843 Oil Filter", "Air Cleaner"}
LeaderPages == {"214", "3", "12", "1214", "0214", "12345"}
SpacedLeaders == {" . . . . . . . . . . . ", " . . . "}

InitDetect ==
    /\ pc = "detect"
    /\ \E name \in LeaderNames, l \in Leaders, n \in LeaderPages :
          args = [name |-> name, leader |-> l, page |-> n,
                  indexLine |-> name \o l \o n]
    /\ ret = Null
    /\ documents = <<>>
    /\ matches = <<>>

\* isIndexPage of the page that holds the line, extractPageReference of the line
DetectIndexLine ==
    /\ pc = "detect"
    /\ ret' = [isIndex |-> isIndexPage(args.indexLine, 1),
               reference |-> extractPageReference(args.indexLine)]
    /\ pc' = "detected"
    /\ UNCHANGED <<args, documents, matches>>

InitIndexNav == InitProcess \/ InitDetect
NextIndexNav == ProcessSearchResults \/ DetectIndexLine
SpecIndexNav == InitIndexNav /\ [][NextIndexNav]_vars

\* the page of the one document of the list holds an index, by its text
HoldsIndex(P) == isIndexPage(PageAt(documents[1], P), P)

\* the page of the one document of the list holds the term, or a part number
Resolves(T, searchTerm) ==
    ContentOfPage(PageAt(documents[1], T), T, searchTerm).found

\* C4: a result found on an index page P, whose context references the content
\* page T, is returned on page T (location.pageNumber = T), marked
\* isFollowedFromIndex with indexPageNumber = P, when page T resolves
C4_RedirectedToReferencedPage ==
    pc = "processed" =>
        \A k \in 1..Len(ret) :
            LET result == args.searchResults[k]
                P == result.location.pageNumber
                T == extractPageReference(result.location.context)
                searchTerm == OrElse(result.partName,
                                     OrElse(result.partNo, args.originalQuery))
            IN  (HoldsIndex(P) /\ T # 0 /\ PageAt(documents[1], T) # ""
                    /\ Resolves(T, searchTerm)) =>
                    /\ ret[k].location.pageNumber = T
                    /\ ret[k].location.isFollowedFromIndex
                    /\ ret[k].location.indexPageNumber = P

\* C5: processSearchResults of a list it returned gives that list again: no
\* result is redirected a second time
C5_Idempotent ==
    pc = "reprocessed" => ret = args.searchResults

\* C8: a page whose line is a name, a dot leader of space-separated dots and
\* a page number N is an index page, and the reference of the line is N
C8_SpacedLeaderIsReference ==
    (pc = "detected" /\ args.leader \in SpacedLeaders /\ Len(args.page) <= 4) =>
        /\ ret.isIndex
        /\ ret.reference = parseInt(args.page)

\* the term findContentOnPage is given for a result
TermOf(result) ==
    OrElse(result.partName, OrElse(result.partNo, args.originalQuery))

\* the context of the result gives no reference, or no document holds the
\* referenced page, or that page holds neither the term nor a part number
Unresolvable(result) ==
    \/ extractPageReference(result.location.context) = 0
    \/ \A d \in 1..Len(documents) :
          ~HasPage(documents[d], extractPageReference(result.location.context))
    \/ ~Resolves(extractPageReference(result.location.context), TermOf(result))

\* C14: processSearchResults returns a result unchanged, and raises no
\* exception, when its context gives no page reference, or no document holds
\* the referenced page, or that page holds neither the term nor a part number
C14_UnresolvableKept ==
    /\ pc \in {"processed", "reprocessed"} =>
          \A k \in 1..Len(ret) :
              Unresolvable(args.searchResults[k]) => ret[k] = args.searchResults[k]
    /\ pc = "rejected" =>
          \E k \in 1..Len(args.searchResults) : ~Unresolvable(args.searchResults[k])

\* the result was found on an index page and its context gives a reference
FollowsReference(result) ==
    /\ result.location.pageNumber # 0
    /\ isIndexPage(getPageContent(documents, result.location.pageNumber),
                   result.location.pageNumber)
    /\ result.location.context # ""
    /\ extractPageReference(result.location.context) # 0

\* C20: the page processSearchResults looks up for a result, and the
\* pageNumber of a result it redirected, is the page number that
\* extractPageReference gives for the context of the result
C20_LooksUpReferencedPage ==
    pc \in {"processed", "reprocessed"} =>
        \A k \in 1..Len(ret) :
            /\ FollowsReference(args.searchResults[k]) =>
                  TargetPageOf(extractPageReference(args.searchResults[k].location.context))
                    = extractPageReference(args.searchResults[k].location.context)
            /\ ret[k] # args.searchResults[k] =>
                  ret[k].location.pageNumber
                    = extractPageReference(args.searchResults[k].location.context)

\* the candidate findContentOnPage chose on the page of a redirected result
ChosenOn(result, redirected) ==
    findContentOnPage(documents, redirected.location.pageNumber,
                      TermOf(result)).relevantPartNumber

\* C21: a redirected result carries the original part number as itemNumber
\* if that value is item-shaped, whatever the partName is, and null
\* otherwise; actualPartNumber and partNumberConfidence are those of the
\* candidate chosen on the target page
C21_ItemNumberPreserved ==
    pc = "processed" =>
        \A k \in 1..Len(ret) :
            ret[k] # args.searchResults[k] =>
                /\ ret[k].location.itemNumber
                      = IF /\ args.searchResults[k].partNo # Null
                           /\ isItemNumber(args.searchResults[k].partNo)
                        THEN args.searchResults[k].partNo ELSE Null
                /\ ret[k].location.actualPartNumber
                      = ChosenOn(args.searchResults[k], ret[k]).partNumber
                /\ ret[k].location.partNumberConfidence
                      = ChosenOn(args.searchResults[k], ret[k]).confidence

\* r is result with the part number and the location of the page that the
\* context of result refers to
IsRedirectionOf(r, result) ==
    /\ r.partName = result.partName
    /\ r.relevance = result.relevance
    /\ r.partNo \in {result.partNo, r.location.actualPartNumber}
    /\ r.location.isFollowedFromIndex
    /\ r.location.indexPageNumber = result.location.pageNumber
    /\ r.location.pageNumber
          = TargetPageOf(extractPageReference(result.location.context))

\* C26: the list processSearchResults returns is as long as its input, and
\* its i-th entry is the i-th result of the input, unchanged or redirected
C26_SameLengthSameOrder ==
    pc \in {"processed", "reprocessed"} =>
        /\ Len(ret) = Len(args.searchResults)
        /\ \A i \in 1..Len(ret) :
              \/ ret[i] = args.searchResults[i]
              \/ IsRedirectionOf(ret[i], args.searchResults[i])

\* a list of two results, the first redirected and the second kept
C26_Witness ==
    /\ pc = "processed"
    /\ Len(ret) = 2
    /\ ret[1] # args.searchResults[1]
    /\ ret[2] = args.searchResults[2]
    /\ args.searchResults[1] # args.searchResults[2]

(***************************************************************************)
(* The universal page reference detector                                   *)
(***************************************************************************)
\* (?:^|\s)(\d{2,4})\s+
NumberThenSpace ==
    <<Alt(<< <<BOL>>, <<C(Space, 1, 1)>> >>), Cap, C(Digit, 2, 4), CapEnd,
      C(Space, 1, Inf)>>

pagePatterns == <<
    \* /(?:^|\s)(\d{2,4})\s+([A-Z][A-Za-z\s,]+)/g
    NumberThenSpace \o <<C(Upper, 1, 1), C(Letter \cup Space \cup {","}, 1, Inf)>>,
    \* /(?:^|\s)(\d{2,4})\s+[A-Z][^.]*\.\s*\.\s*\./g
    NumberThenSpace \o <<C(Upper, 1, 1), NC({"."}, 0, Inf), C({"."}, 1, 1),
                          C(Space, 0, Inf), C({"."}, 1, 1), C(Space, 0, Inf),
                          C({"."}, 1, 1)>>,
    \* /(?:^|\s)(\d{2,4})\s+[A-Z]/g
    NumberThenSpace \o <<C(Upper, 1, 1)>> >>

\* null where a PageReference is expected
NoPageReference == [targetPage |-> 0, referenceText |-> "", sourceContext |-> ""]

\* mutant: a reference to the current page is accepted
isReasonablePage_NoSelfCheck(pageNum, currentPageNumber) ==
    pageNum >= 1 /\ pageNum <= 9999

\* the validation of a page number found in a context
isReasonablePage(pageNum, currentPageNumber) ==
    pageNum >= 1 /\ pageNum <= 9999 /\ pageNum # currentPageNumber

\* the matches of the three patterns, in the order the loops visit them
PageMatches(context) ==
    Flatten([k \in 1..Len(pagePatterns) |-> ExecAll(context, 1, pagePatterns[k])])

\* the reference of the first match, from the k-th on, that passes validation
RECURSIVE FirstPageReference(_, _, _, _)
FirstPageReference(context, currentPageNumber, ms, k) ==
    IF k > Len(ms) THEN NoPageReference
    ELSE IF isReasonablePage(parseInt(Group1(context, ms[k])), currentPageNumber)
    THEN [targetPage |-> parseInt(Group1(context, ms[k])),
          referenceText |-> trim(SubSeq(context, ms[k].start, ms[k].end - 1)),
          sourceContext |-> SubSeq(context, Max(1, ms[k].start - 20),
                                   Min(Len(context), ms[k].end + 19))]
    ELSE FirstPageReference(context, currentPageNumber, ms, k + 1)

\* currentPageNumber is 0 when the caller has no page number
extractPageReferenceFromContext(context, currentPageNumber) ==
    IF context = Null \/ context = "" THEN NoPageReference
    ELSE FirstPageReference(context, currentPageNumber, PageMatches(context), 1)

(***************************************************************************)
(* Calls of the universal page reference detector.  A context is a line of *)
(* MaxReferences entries at most, each a number and a phrase; the current  *)
(* page is one of the numbers, or 0 for a result without a page number.    *)
(***************************************************************************)
MaxReferences == 2

EntryNumbers == {"12", "214", "0214", "5", "00"}
EntryPhrases == {"Pump", "Brake Valve . . . 12", "pump"}
Entries == {n \o " " \o ph : n \in EntryNumbers, ph \in EntryPhrases}
Contexts == {join(es, " ") : es \in SeqsUpTo(Entries, MaxReferences)}
CurrentPages == {0, 12, 214}

InitPageReference ==
    /\ pc = "context"
    /\ \E c \in Contexts, n \in CurrentPages :
          args = [context |-> c, currentPageNumber |-> n]
    /\ ret = Null
    /\ documents = <<>>
    /\ matches = <<>>

ExtractPageReferenceFromContext ==
    /\ pc = "context"
    /\ ret' = extractPageReferenceFromContext(args.context, args.currentPageNumber)
    /\ pc' = "referenced"
    /\ UNCHANGED <<args, documents, matches>>

SpecPageReference == InitPageReference /\ [][ExtractPageReferenceFromContext]_vars

\* C7: extractPageReferenceFromContext(c, p) returns null or a reference whose
\* targetPage is not p
C7_NoSelfRedirect ==
    pc = "referenced" =>
        \/ ret = NoPageReference
        \/ ret.targetPage # args.currentPageNumber

\* a context that names the current page, and a reference to another page
\* returned for it
C7_Witness ==
    /\ pc = "referenced"
    /\ args.currentPageNumber # 0
    /\ ret # NoPageReference
    /\ \E k \in 1..Len(PageMatches(args.context)) :
          parseInt(Group1(args.context, PageMatches(args.context)[k]))
              = args.currentPageNumber

(***************************************************************************)
(* Regular expressions in String.prototype.replace, match, split, search   *)
(***************************************************************************)
\* match[0]
MatchedText(s, m) == SubSeq(s, m.start, m.end - 1)

\* String.prototype.match of a g-flag pattern: the matched texts
MatchAllText(s, pat) ==
    LET Texts(ms) == [k \in 1..Len(ms) |-> MatchedText(s, ms[k])]
    IN  Texts(ExecAll(s, 1, pat))

\* s from position pos on, with the matches ms[k], ms[k + 1], ... replaced
RECURSIVE ReplaceFrom(_, _, _, _, _)
ReplaceFrom(s, ms, k, pos, repl) ==
    IF k > Len(ms) THEN SubSeq(s, pos, Len(s))
    ELSE SubSeq(s, pos, ms[k].start - 1) \o repl
            \o ReplaceFrom(s, ms, k + 1, ms[k].end, repl)

\* String.prototype.replace of a g-flag pattern
replaceAll(s, pat, repl) == Having(s, ReplaceFrom(s, ExecAll(s, 1, pat), 1, 1, repl))

\* String.prototype.replace of a pattern without the g flag
replaceFirst(s, pat, repl) ==
    LET At(m) == IF m.end = 0 THEN s
                 ELSE SubSeq(s, 1, m.start - 1) \o repl \o SubSeq(s, m.end, Len(s))
    IN  Having(s, At(Exec(s, 1, pat)))

\* String.prototype.search: the 0-based index of the first match, -1 if none
search(s, pat) == Having(s, Exec(s, 1, pat).start - 1)

\* the maximal runs of characters of s that are not separators, in order
Runs(s, separators) ==
    LET Inside(i) == i >= 1 /\ i <= Len(s) /\ CharAt(s, i) \notin separators
        starts == {i \in 1..Len(s) : Inside(i) /\ ~Inside(i - 1)}
        Nth(k) == CHOOSE i \in starts : Cardinality({j \in starts : j < i}) = k - 1
        EndOf(i) == CHOOSE j \in i..Len(s) :
                        ~Inside(j + 1) /\ \A m \in i..j : Inside(m)
        Run(i) == SubSeq(s, i, EndOf(i))
    IN  [k \in 1..Cardinality(starts) |-> Run(Nth(k))]

\* split(/\s+/), had the empty strings been left in
Words_Unfiltered(s) ==
    (IF s = "" \/ CharAt(s, 1) \in Space THEN <<"">> ELSE <<>>)
    \o Runs(s, Space)
    \o (IF s # "" /\ CharAt(s, Len(s)) \in Space THEN <<"">> ELSE <<>>)

\* split(/\s+/).filter(Boolean): the maximal runs of characters other than
\* white space
Words(s) == Runs(s, Space)

\* split(" ").filter(Boolean)
SpaceSeparated(s) == Runs(s, {" "})

\* an optional group (x)?
Opt(p) == Alt(<<p, <<>> >>)

\* an alternation of literals, under the i flag or on lower-case text
Lits(strs) == Alt([k \in 1..Len(strs) |-> LitI(strs[k])])

\* \s+
Spaces == C(Space, 1, Inf)

(***************************************************************************)
(* Query Normalizer                                                        *)
(***************************************************************************)
\* /^(i need|i'm looking for|i want|can you find|find me|where is|what is|show me)\s+/i
conversationalPrefix ==
    <<BOL, Lits(<<"i need", "i'm looking for", "i want", "can you find", "find me",
                  "where is", "what is", "show me">>), Spaces>>

\* /\b(the|a|an)\s+/g
articles == <<WB, Alt(<<Lit("the"), Lit("a"), Lit("an")>>), Spaces>>

\* /\b(part number|part|number|for|of)\s+/g
fillers ==
    <<WB, Alt(<<Lit("part number"), Lit("part"), Lit("number"), Lit("for"), Lit("of")>>),
      Spaces>>

\* a\s+b
TwoWords(a, b) == LitI(a) \o <<Spaces>> \o LitI(b)

\* the component patterns of extractKeyTermsFromNaturalLanguage, in list order
componentPatterns == <<
    \* /\b(engine\s+)?oil\s+filter\b/i
    <<WB, Opt(LitI("engine") \o <<Spaces>>)>> \o TwoWords("oil", "filter") \o <<WB>>,
    <<WB, Alt(<<TwoWords("air", "filter"), TwoWords("air", "cleaner")>>), WB>>,
    <<WB, Alt(<<TwoWords("fuel", "filter"), TwoWords("fuel", "element")>>), WB>>,
    <<WB, Alt(<<TwoWords("hydraulic", "filter"), TwoWords("hydraulic", "element")>>), WB>>,
    <<WB, Alt(<<TwoWords("spark", "plug"), TwoWords("ignition", "plug")>>), WB>>,
    <<WB, Alt(<<TwoWords("brake", "pad"), TwoWords("brake", "disc"),
                TwoWords("brake", "rotor")>>), WB>>,
    <<WB, Alt(<<TwoWords("transmission", "filter"),
                TwoWords("transmission", "oil") \o <<Spaces>> \o LitI("filter")>>), WB>>,
    <<WB, Alt(<<TwoWords("coolant", "filter"), TwoWords("radiator", "filter")>>), WB>> >>

\* the query with the conversational phrases and the filler words removed
CleanedQuery(originalQuery) ==
    trim(replaceAll(replaceAll(replaceAll(replaceFirst(originalQuery,
        conversationalPrefix, ""), articles, " "), fillers, " "), <<Spaces>>, " "))

\* originalQuery.match(pattern) for each of the component patterns
ComponentMatches(originalQuery) ==
    [p \in 1..Len(componentPatterns) |-> Exec(originalQuery, 1, componentPatterns[p])]

\* the text matched by the first component pattern, from the k-th on, that
\* matches originalQuery, ms being the matches of the patterns; Null if none
FirstComponentOf(originalQuery, ms, k) ==
    LET Of(p) == IF p > Len(ms) THEN Null ELSE MatchedText(originalQuery, ms[p])
    IN  Of(CHOOSE p \in k..Max(k, Len(ms) + 1) :
                /\ p > Len(ms) \/ ms[p].end # 0
                /\ \A q \in k..(p - 1) : ms[q].end = 0)

FirstComponent(originalQuery, k) ==
    FirstComponentOf(originalQuery, ComponentMatches(originalQuery), k)

\* processed && processed !== originalQuery ? processed : query
ProcessedOrQuery(processed, originalQuery, query) ==
    IF processed # "" /\ processed # originalQuery THEN processed ELSE query

\* the component found, or else the cleaned query
ComponentOrProcessed(component, originalQuery, query) ==
    IF component # Null THEN component
    ELSE ProcessedOrQuery(CleanedQuery(originalQuery), originalQuery, query)

\* the key terms, had the patterns been matched against the cleaned query
KeyTermsOf_Cleaned(originalQuery, query) ==
    ComponentOrProcessed(FirstComponent(CleanedQuery(originalQuery), 1),
                         originalQuery, query)

\* the key terms of the query whose lower-case, trimmed form is originalQuery
KeyTermsOf(originalQuery, query) ==
    Having(originalQuery,
           ComponentOrProcessed(FirstComponent(originalQuery, 1), originalQuery, query))

extractKeyTermsFromNaturalLanguage(query) ==
    Having(query, KeyTermsOf(trim(toLowerCase(query)), query))

\* the synonym table of expandSearchQuery, in the order of its keys
expansions == <<
    [key |-> "air filter",
     values |-> <<"air cleaner", "air element", "intake filter", "engine air",
                  "air assembly", "filtration", "breather">>],
    [key |-> "oil filter",
     values |-> <<"oil element", "oil cleaner", "lubrication filter", "engine oil",
                  "oil assembly">>],
    [key |-> "fuel filter",
     values |-> <<"fuel element", "fuel cleaner", "fuel line filter", "fuel assembly">>],
    [key |-> "hydraulic filter",
     values |-> <<"hydraulic element", "hydraulic cleaner", "transmission filter",
                  "hyd filter">>],
    [key |-> "cabin filter",
     values |-> <<"cab filter", "cabin air", "hvac filter", "air conditioning">>],
    [key |-> "filter", values |-> <<"element", "cleaner", "cartridge", "assembly">>] >>

\* the terms of the keys the query holds; if there is none, three terms of
\* each key one of whose words the query holds
expandSearchQuery(query) ==
    LET exact ==
            Flatten([k \in 1..Len(expansions) |->
                IF includes(query, expansions[k].key) THEN expansions[k].values
                ELSE <<>>])
        KeyWords(k) == SpaceSeparated(expansions[k].key)
        partial ==
            Flatten([k \in 1..Len(expansions) |->
                IF \E w \in 1..Len(KeyWords(k)) : includes(query, KeyWords(k)[w])
                THEN SubSeq(expansions[k].values, 1, 3)
                ELSE <<>>])
        Expanded(exactTerms) == IF Len(exactTerms) > 0 THEN exactTerms ELSE partial
    IN  Expanded(exact)

\* [...new Set(seq)]
Distinct(seq) == FirstOccurrences(seq, seq)

\* the term set of a search: the words of the query and its expansion terms
QueryWords(originalQuery) ==
    Having(originalQuery,
           Distinct(Words(originalQuery) \o expandSearchQuery(originalQuery)))

(***************************************************************************)
(* Candidate Filter and Relevance Scorer                                   *)
(***************************************************************************)
\* whether s holds one of the terms
includesAny(s, terms) == \E k \in 1..Len(terms) : includes(s, terms[k])

\* the patterns of isIndexEntry
indexEntryPatterns == <<
    <<BOL, C(Digit, 1, Inf), C(Space, 0, Inf), EOL>>,
    <<BOL, C(Upper, 2, 3), C(Digit, 1, 3), C(Space, 0, Inf), EOL>>,
    LitI("alphabetical"),
    LitI("index"),
    LitI("page") \o <<C(Space, 0, Inf), C(Digit, 1, Inf)>>,
    <<BOL, Alt(<<Lit("PIN:"), Lit("TX") \o <<C(Digit, 1, 1)>>,
                 Lit("PC") \o <<C(Digit, 1, 1)>> >>)>>,
    <<BOL>> \o Lit("(") \o <<C(Upper, 1, 1)>> \o Lit("-") \o <<C(Digit, 1, Inf)>>
        \o Lit(")"),
    <<Lits(<<"copyright", "printed", "edition">>)>> >>

isIndexEntry(line) ==
    LET Matches(trimmed) ==
            \E k \in 1..Len(indexEntryPatterns) : Test(trimmed, indexEntryPatterns[k])
    IN  Matches(trim(line))

hardExclusions ==
    <<"axles", "differential", "suspension", "brake", "transmission", "hydraulic",
      "fuel", "coolant", "oil", "steering", "tire", "wheel", "auxiliary system",
      "external fuel", "customer numbers", "catalog", "alphabetical", "index",
      "section", "page">>

requiredAirTerms == <<"air", "intake", "breather", "cabin", "cab", "engine air">>
requiredFilterTerms == <<"filter", "element", "cleaner", "assembly">>

\* /\b(air|intake|breather|cabin|cab)\b/ and /\b(filter|element|cleaner|assembly)\b/
airWord == <<WB, Lits(<<"air", "intake", "breather", "cabin", "cab">>), WB>>
filterWord == <<WB, Lits(<<"filter", "element", "cleaner", "assembly">>), WB>>

\* the distance limit between the air term and the filter term
MaxTermDistance == 50

\* Math.abs
Abs(n) == IF n < 0 THEN -n ELSE n

\* the air and the filter term are not too far apart
TermsClose(airIndex, filterIndex) ==
    (airIndex # -1 /\ filterIndex # -1) => Abs(airIndex - filterIndex) <= MaxTermDistance

\* the context names a transmission part (the gate's list)
isTransmission(lowerContext) ==
    includesAny(lowerContext, <<"transmission", "ransmission", "gearbox", "powershift">>)

isRelevantForQuery(context, originalQuery, queryWords) ==
    LET Gate(lowerContext, lowerQuery) ==
        IF includes(lowerQuery, "air filter") \/ includes(lowerQuery, "air cleaner")
        THEN /\ ~includesAny(lowerContext, hardExclusions)
             /\ includesAny(lowerContext, requiredAirTerms)
             /\ includesAny(lowerContext, requiredFilterTerms)
             /\ TermsClose(search(lowerContext, airWord), search(lowerContext, filterWord))
        ELSE IF includes(lowerQuery, "oil filter") \/ includes(lowerQuery, "engine oil")
        THEN /\ ~includesAny(lowerContext,
                    <<"fuel", "air", "hydraulic", "coolant", "axles", "differential">>)
             /\ IF includes(lowerQuery, "engine oil")
                   \/ includes(lowerQuery, "engine oil filter")
                THEN /\ ~isTransmission(lowerContext)
                     /\ includes(lowerContext, "oil") \/ includes(lowerContext, "lube")
                     /\ includes(lowerContext, "filter")
                            \/ includes(lowerContext, "element")
                ELSE /\ includes(lowerContext, "oil")
                     /\ includes(lowerContext, "filter")
                            \/ includes(lowerContext, "element")
        ELSE IF includes(lowerQuery, "fuel filter")
        THEN /\ ~includesAny(lowerContext,
                    <<"air", "oil", "hydraulic", "coolant", "axles", "differential">>)
             /\ includes(lowerContext, "fuel")
             /\ includes(lowerContext, "filter") \/ includes(lowerContext, "element")
        ELSE TRUE
    IN  Gate(toLowerCase(context), toLowerCase(originalQuery))

\* the acceptance threshold of a relevance score
AcceptanceThreshold == 3

\* the penalty of a transmission context under an engine oil query
TransmissionPenalty == 20

componentKeywords == <<"element", "assembly", "kit", "service", "cartridge", "housing">>

\* the number of the terms that s holds
CountIncluded(s, terms) == Cardinality({k \in 1..Len(terms) : includes(s, terms[k])})

\* /\b[A-Z]{2,4}[\d-]{4,12}\b|\b\d{6,10}[A-Z]?\b/
partNumberInContext ==
    <<Alt(<< <<WB, C(Upper, 2, 4), C(Digit \cup {"-"}, 4, 12), WB>>,
             <<WB, C(Digit, 6, 10), C(Upper, 0, 1), WB>> >>)>>

calculateEnhancedRelevance(context, originalQuery, queryWords) ==
    LET Score(lowerContext, lowerQuery) ==
          CountIncluded(lowerContext, queryWords)
        + Bonus(includes(lowerQuery, "air filter") \/ includes(lowerQuery, "air cleaner"),
              Bonus(includesAny(lowerContext, <<"engine air", "intake", "primary air">>), 8)
            - Bonus(includesAny(lowerContext,
                        <<"condenser", "evaporator", "operator station">>), 15)
            - Bonus(includesAny(lowerContext, <<"fuel", "hydraulic", "oil">>), 5))
        + Bonus(includes(lowerQuery, "oil filter") \/ includes(lowerQuery, "engine oil"),
              Bonus(\/ includes(lowerContext, "engine oil")
                    \/ includes(lowerContext, "lube filter")
                    \/ /\ includes(lowerContext, "oil")
                       /\ includes(lowerContext, "filter")
                       /\ ~includes(lowerContext, "transmission"), 10)
            - Bonus(/\ includes(lowerQuery, "engine oil")
                       \/ includes(lowerQuery, "engine oil filter")
                    /\ includesAny(lowerContext,
                          <<"transmission", "ransmission", "gearbox", "powershift",
                            "housing covers">>), TransmissionPenalty)
            + Bonus(includesAny(lowerContext, <<"spin-on", "cartridge", "element">>), 3))
        + CountIncluded(lowerContext, componentKeywords)
        - Bonus(includes(lowerContext, "alphabetical") \/ includes(lowerContext, "index"), 3)
        - Bonus(includes(lowerContext, "external fuel") /\ includes(lowerQuery, "air"), 4)
        - Bonus(Len(context) < 20, 1)
        + Bonus(Test(context, partNumberInContext), 2)
    IN  Score(toLowerCase(context), toLowerCase(originalQuery))

(***************************************************************************)
(* The scorer on context windows put together from catalogue phrases       *)
(***************************************************************************)
ContextPhrases ==
    <<"Engine oil filter", "element", "cartridge", "service kit", "assembly,",
      "transmission", "housing", "RE508960">>

\* the phrases of the pool that are in the chosen set, in the pool's order
PhrasesIn(chosen) ==
    Flatten([k \in 1..Len(ContextPhrases) |->
                IF k \in chosen THEN <<ContextPhrases[k]>> ELSE <<>>])

ScoredContexts ==
    {join(PhrasesIn(chosen), " ") : chosen \in SUBSET (1..Len(ContextPhrases))}

ScoredQueries == {"engine oil filter", "Engine Oil", "oil filter"}

\* the scorer's arguments as searchPartsInTextWithLocation computes them
ScorerArguments(context, query) ==
    LET Of(originalQuery) ==
            [context |-> context, originalQuery |-> originalQuery,
             queryWords |-> QueryWords(originalQuery)]
    IN  Of(toLowerCase(extractKeyTermsFromNaturalLanguage(query)))

InitRelevance ==
    /\ pc = "candidate"
    /\ \E c \in ScoredContexts, q \in ScoredQueries : args = ScorerArguments(c, q)
    /\ ret = 0
    /\ documents = <<>>
    /\ matches = <<>>

CalculateEnhancedRelevance ==
    /\ pc = "candidate"
    /\ ret' = calculateEnhancedRelevance(args.context, args.originalQuery,
                                         args.queryWords)
    /\ pc' = "scored"
    /\ UNCHANGED <<args, documents, matches>>

SpecRelevance == InitRelevance /\ [][CalculateEnhancedRelevance]_vars

\* C3: for a query that contains "engine oil" and a context window that
\* contains "transmission", calculateEnhancedRelevance returns a score below
\* the acceptance threshold, whatever bonus terms the context also holds
C3_TransmissionBelowThreshold ==
    (/\ pc = "scored"
     /\ includes(args.originalQuery, "engine oil")
     /\ includes(toLowerCase(args.context), "transmission"))
        => ret < AcceptanceThreshold

(***************************************************************************)
(* Part description                                                        *)
(***************************************************************************)
\* whether seq holds x (Array.prototype.includes)
Contains(seq, x) == \E k \in 1..Len(seq) : seq[k] = x

\* slice(0, n)
slice0(seq, n) == SubSeq(seq, 1, Min(n, Len(seq)))

\* /^\d+\s*/
leadingNumber == <<BOL, C(Digit, 1, Inf), C(Space, 0, Inf)>>

\* /[^\w\s-]/
specialCharacter == <<NC(WordChar \cup Space \cup {"-"}, 1, 1)>>

\* /\b(part|parts|number|no|qty|quantity)\b/gi
redundantWords == <<WB, Lits(<<"part", "parts", "number", "no", "qty", "quantity">>), WB>>

\* /\b(310sk|backhoe|loader)\b/gi
machineWords == <<WB, Lits(<<"310sk", "backhoe", "loader">>), WB>>

\* /\b(engine|serial|pin)\b/gi
noiseWords == <<WB, Lits(<<"engine", "serial", "pin">>), WB>>

componentWords ==
    <<"filter", "assembly", "kit", "service", "element", "housing", "valve", "pump",
      "sensor", "belt", "hose">>

\* the number of relevant words a description keeps, and of words it keeps
\* when none is relevant
MaxRelevantWords == 5
MaxPlainWords == 4

\* the words of extractPartDescription's relevantWords filter
isRelevantWord(word, queryWords) ==
    LET Is(lowerWord) ==
            \/ includesAny(lowerWord, queryWords)
            \/ Contains(componentWords, lowerWord)
            \/ Len(word) > 3 /\ ~Contains(<<"that", "with", "from", "this">>, lowerWord)
    IN  Is(toLowerCase(word))

\* the description without its noise: leading number, runs of white space,
\* special characters, redundant words
withoutNoise(description) ==
    trim(replaceAll(replaceAll(replaceAll(replaceAll(replaceAll(replaceFirst(
        description, leadingNumber, ""), <<C(Space, 2, Inf)>>, " "),
        specialCharacter, " "), redundantWords, ""), machineWords, ""),
        noiseWords, ""))

\* partNumber is Null for a context without a part number
extractPartDescription(context, partNumber, queryWords) ==
    LET Chosen(words, relevantWords) ==
            IF Len(relevantWords) > 0
            THEN join(slice0(relevantWords, MaxRelevantWords), " ")
            ELSE join(slice0(words, MaxPlainWords), " ")
        Focused(words) ==
            Chosen(words, SelectSeq(words, LAMBDA w : isRelevantWord(w, queryWords)))
        OrComponent(description) ==
            IF description = "" THEN "Component" ELSE description
        WithoutPartNumber ==
            IF partNumber # Null /\ partNumber # ""
            THEN trim(replaceAll(context, LitI(partNumber), ""))
            ELSE context
    IN  OrComponent(trim(replaceAll(
            Focused(SpaceSeparated(withoutNoise(WithoutPartNumber))),
            <<Spaces>>, " ")))

(***************************************************************************)
(* Search: Candidate Filter, Scorer, Classifier                            *)
(***************************************************************************)
\* the limits of searchPartsInTextWithLocation: lines read, lines kept by the
\* first pass, lines analysed, length of a neighbour line that joins the
\* context, length of the context reported
MaxLinesToProcess == 3000
MaxRelevantLines == 200
MaxAnalysedLines == 100
MaxNeighbourLength == 100
MaxContextLength == 200

\* /\b[A-Z]{2,4}[\d-]{4,12}\b|\b\d{6,10}[A-Z]?\b|\b[A-Z]\d{5,8}\b/gi
partRegex ==
    <<Alt(<< <<WB, C(Letter, 2, 4), C(Digit \cup {"-"}, 4, 12), WB>>,
             <<WB, C(Digit, 6, 10), C(Letter, 0, 1), WB>>,
             <<WB, C(Letter, 1, 1), C(Digit, 5, 8), WB>> >>)>>

\* /^(PC|TX|HT|TT)\d{1,4}$/ or a short token
isPageReference(part) ==
    \/ Test(part, <<BOL, Alt(<<Lit("PC"), Lit("TX"), Lit("HT"), Lit("TT")>>),
                    C(Digit, 1, 4), EOL>>)
    \/ Len(part) < 4

\* a result of the context: { partNo, partName, relevance, location }
resultOf(context, queryWords, where, partNo, partNumber, relevanceScore) ==
    [partNo |-> partNo,
     partName |-> extractPartDescription(context, partNumber, queryWords),
     relevance |-> relevanceScore,
     location |-> where]

\* validParts.forEach(part => results.push(...))
resultsOfParts(context, queryWords, where, validParts, relevanceScore) ==
    [k \in 1..Len(validParts) |->
        resultOf(context, queryWords, where,
                 trim(validParts[k]), validParts[k], relevanceScore)]

\* one result per part number that is not a page reference, or, if the
\* context holds no part number, one result without a part number
resultsOfMatches(context, queryWords, where, partMatches, relevanceScore) ==
    IF Len(partMatches) > 0
    THEN resultsOfParts(context, queryWords, where,
                        SelectSeq(partMatches, LAMBDA part : ~isPageReference(part)),
                        relevanceScore)
    ELSE IF relevanceScore > 2
    THEN <<resultOf(context, queryWords, where, Null, Null, relevanceScore)>>
    ELSE <<>>

\* if (relevanceScore < 3) continue
resultsOfScore(context, queryWords, where, relevanceScore) ==
    IF relevanceScore < AcceptanceThreshold THEN <<>>
    ELSE resultsOfMatches(context, queryWords, where,
                          MatchAllText(context, partRegex), relevanceScore)

\* the results of a candidate context, had the gate not been applied
resultsOfContext_Ungated(context, originalQuery, queryWords, where) ==
    resultsOfScore(context, queryWords, where,
                   calculateEnhancedRelevance(context, originalQuery, queryWords))

\* the results of one candidate context; where is the location of the
\* results, a record
resultsOfContext(context, originalQuery, queryWords, where) ==
    IF ~isRelevantForQuery(context, originalQuery, queryWords) THEN <<>>
    ELSE resultsOfScore(context, queryWords, where,
                        calculateEnhancedRelevance(context, originalQuery, queryWords))

\* the comparison of the duplicate filter, had it compared the whole items
sameResult_WholeItem(x, item) == x = item

\* x.partNo === item.partNo && x.partName === item.partName
sameResult(x, item) == x.partNo = item.partNo /\ x.partName = item.partName

\* the duplicate filter alone, on the results in the order they were found
sortAndDeduplicate_Unsorted(results) ==
    Pick(results, {i \in 1..Len(results) :
                      \A j \in 1..(i - 1) : ~sameResult(results[j], results[i])}, 1)

\* .sort((a, b) => b.relevance - a.relevance).filter(first of its kind)
sortAndDeduplicate(results) ==
    LET Filtered(arr) ==
            Pick(arr, {i \in 1..Len(arr) :
                        \A j \in 1..(i - 1) : ~sameResult(arr[j], arr[i])}, 1)
    IN  Filtered(SortDesc(results, [k \in 1..Len(results) |-> results[k].relevance]))

\* the context of a line: the line, with its neighbours if they are short
contextOf(previousLine, currentLine, nextLine) ==
    (IF previousLine # "" /\ Len(previousLine) < MaxNeighbourLength
     THEN previousLine \o " " ELSE "")
    \o currentLine
    \o (IF nextLine # "" /\ Len(nextLine) < MaxNeighbourLength
        THEN " " \o nextLine ELSE "")

\* text.split(/\r?\n/).map(line => line.trim()).filter(Boolean); the text
\* holds no carriage return, so /\r?\n/ splits at the line feeds
trimmedLines(fullText) ==
    LET Trimmed(all) == [k \in 1..Len(all) |-> trim(all[k])]
    IN  SelectSeq(Trimmed(splitLines(fullText)), LAMBDA l : l # "")

\* the results of line i of searchPartsInText
legacyResultsOfLine(lines, i, originalQuery, queryWords) ==
    IF \/ isIndexEntry(lines[i])
       \/ ~includesAny(toLowerCase(lines[i]), queryWords)
    THEN <<>>
    ELSE resultsOfContext(contextOf(IF i > 1 THEN lines[i - 1] ELSE "",
                                    lines[i],
                                    IF i < Len(lines) THEN lines[i + 1] ELSE ""),
                          originalQuery, queryWords, Null)

\* the results of the lines of searchPartsInText, in line order
legacyResults(lines, originalQuery, queryWords) ==
    Having(queryWords,
           Flatten([i \in 1..Len(lines) |->
                        legacyResultsOfLine(lines, i, originalQuery, queryWords)]))

searchPartsInText(fullText, query) ==
    sortAndDeduplicate(legacyResults(trimmedLines(fullText), toLowerCase(query),
                                     QueryWords(toLowerCase(query))))

\* the mark of a context that was cut
Ellipsis == "..."

\* the location of a result, had the context been stored whole
locationOf_Whole(lineData, context) ==
    [Location(lineData.pageNumber, lineData.lineNumber, context)
        EXCEPT !.yPosition = lineData.yPosition]

\* the location of a result of the line
locationOf(lineData, context) ==
    [Location(lineData.pageNumber, lineData.lineNumber,
              substring0(context, MaxContextLength)
                \o (IF Len(context) > MaxContextLength THEN Ellipsis ELSE ""))
        EXCEPT !.yPosition = lineData.yPosition]

\* the lines of the first pass: of the first MaxLinesToProcess lines those
\* that hold a query term and are no index entry, MaxRelevantLines at most
relevantLines(textMap, queryWords) ==
    LET Kept(lineData) ==
            /\ lineData.text # ""
            /\ includesAny(toLowerCase(lineData.text), queryWords)
            /\ ~isIndexEntry(lineData.text)
    IN  slice0(SelectSeq(slice0(textMap, MaxLinesToProcess), Kept), MaxRelevantLines)

\* the results of a line of the second pass
resultsOfLine(lineData, context, originalQuery, queryWords) ==
    resultsOfContext(context, originalQuery, queryWords, locationOf(lineData, context))

\* the results of the lines analysed, in line order
analysedResults(lines, originalQuery, queryWords) ==
    Having(queryWords,
           Flatten([k \in 1..Len(lines) |->
                        resultsOfLine(lines[k],
                                      contextOf(lines[k].context.previousLine,
                                                lines[k].text,
                                                lines[k].context.nextLine),
                                      originalQuery, queryWords)]))

\* the second pass, had it analysed every line the first pass kept
resultsOfTerms_AllLines(textMap, originalQuery, queryWords) ==
    analysedResults(relevantLines(textMap, queryWords), originalQuery, queryWords)

\* the results for the lower-case key terms originalQuery of the query
resultsOfTerms(textMap, originalQuery, queryWords) ==
    analysedResults(slice0(relevantLines(textMap, queryWords), MaxAnalysedLines),
                    originalQuery, queryWords)

\* let queryWords = originalQuery.split(/\s+/); ... [...new Set(...)]
resultsOfQuery(textMap, originalQuery) ==
    Having(originalQuery,
           resultsOfTerms(textMap, originalQuery, QueryWords(originalQuery)))

\* the results of searchPartsInTextWithLocation before the sort and the
\* duplicate filter
locatedResults(textMap, query) ==
    resultsOfQuery(textMap, toLowerCase(extractKeyTermsFromNaturalLanguage(query)))

\* the results of the fallback carry { pageNumber: null, context }
withoutLocation(fallbackResults) ==
    [k \in 1..Len(fallbackResults) |->
        [fallbackResults[k] EXCEPT !.location =
            [pageNumber |-> Null, context |-> "Page location not available"]]]

\* null passed for a document
NoDocument == [document |-> Null]

\* a document is a record with the fields hasTextMap, textMap and text
searchPartsInTextWithLocation(document, query) ==
    IF document = NoDocument THEN <<>>
    ELSE IF ~document.hasTextMap /\ document.text = "" THEN <<>>
    ELSE IF ~document.hasTextMap \/ Len(document.textMap) = 0
    THEN withoutLocation(searchPartsInText(document.text, query))
    ELSE sortAndDeduplicate(locatedResults(document.textMap, query))

\* the document, had the first pass written the lower-case text into the line
documentAfterSearch_Normalized(document, query) ==
    [document EXCEPT !.textMap =
        [i \in 1..Len(document.textMap) |->
            [document.textMap[i] EXCEPT !.text = toLowerCase(document.textMap[i].text)]]]

\* the document, had the first pass written the index into the line
documentAfterSearch_Indexed(document, query) ==
    [document EXCEPT !.textMap =
        [i \in 1..Len(document.textMap) |-> document.textMap[i] @@ [index |-> i - 1]]]

\* the document after a call of searchPartsInTextWithLocation: the first pass
\* reads document.textMap[i]; normalizedLine is a new string and the line
\* pushed is a copy, { ...lineData, index: i }
documentAfterSearch(document, query) == document

(***************************************************************************)
(* Documents as extractTextFromPDF builds them                             *)
(***************************************************************************)
\* /\s{2,}/g replaced by " "
collapseSpaces(s) == replaceAll(s, <<C(Space, 2, Inf)>>, " ")

\* the text of a page: its lines joined by line feeds
cleanPageText(lines) ==
    collapseSpaces(join([k \in 1..Len(lines) |-> lines[k].text], NL))

\* the textMap entries of page pageNum; lines[k] is a record of the text and
\* the y of the k-th line from the top
textMapOfPage(lines, pageNum) ==
    Flatten([lineIndex \in 1..Len(lines) |->
        IF trim(lines[lineIndex].text) = "" THEN <<>>
        ELSE <<[text |-> trim(lines[lineIndex].text),
                pageNumber |-> pageNum,
                lineNumber |-> lineIndex,
                yPosition |-> lines[lineIndex].y,
                context |->
                    [previousLine |->
                        IF lineIndex > 1 THEN lines[lineIndex - 1].text ELSE "",
                     nextLine |->
                        IF lineIndex < Len(lines) THEN lines[lineIndex + 1].text
                        ELSE ""]]>>])

\* the document of a PDF whose pages hold the given lines
documentOf(pageLines) ==
    [pages |-> [n \in 1..Len(pageLines) |-> cleanPageText(pageLines[n])],
     pageObjects |-> TRUE,
     hasTextMap |-> TRUE,
     textMap |-> Flatten([n \in 1..Len(pageLines) |-> textMapOfPage(pageLines[n], n)]),
     text |-> trim(join([n \in 1..Len(pageLines) |-> cleanPageText(pageLines[n])], NL))]

(***************************************************************************)
(* Search over small catalogues                                            *)
(***************************************************************************)
MaxSearchLines == 2

SearchLinePool ==
    {"Oil filter element assembly kit RE508960",
     "Oil filter element assembly service RE508960",
     "Lube oil filter element",
     "PC12 Index of oil filters",
     "Hydraulic pump AB1234 TX12"}

SearchQueries == {"oil filter", "show me the engine oil filter", "pump"}

\* the lines, from the top of a page down
LinesOf(texts) == [k \in 1..Len(texts) |-> [text |-> texts[k], y |-> 720 - (12 * k)]]

\* the catalogue with all the lines on one page, or a page for each line
Catalogue(texts, onePage) ==
    IF onePage THEN documentOf(<<LinesOf(texts)>>)
    ELSE documentOf([n \in 1..Len(texts) |-> LinesOf(<<texts[n]>>)])

InitSearch ==
    /\ pc = "query"
    /\ \E texts \in SeqsUpTo(SearchLinePool, MaxSearchLines), onePage \in BOOLEAN :
          documents = <<Catalogue(texts, onePage)>>
    /\ \E q \in SearchQueries : args = [query |-> q]
    /\ ret = <<>>
    /\ matches = <<>>

SearchPartsInTextWithLocation ==
    /\ pc = "query"
    /\ ret' = searchPartsInTextWithLocation(documents[1], args.query)
    /\ matches' = ret'
    /\ pc' = "searched"
    /\ UNCHANGED <<args, documents>>

SpecSearch == InitSearch /\ [][SearchPartsInTextWithLocation]_vars

\* C1 as stated: the list search returns never holds two results with the same
\* partNo and the same first 20 characters of partName
C1_NoDuplicatePrefix ==
    pc = "searched" =>
        \A i, j \in 1..Len(ret) :
            (/\ ret[i].partNo = ret[j].partNo
             /\ substring0(ret[i].partName, 20) = substring0(ret[j].partName, 20))
                => i = j

\* C1 (amended): the list search returns never holds two results with the same
\* partNo and the same partName
C1_NoDuplicateName ==
    pc = "searched" =>
        \A i, j \in 1..Len(ret) :
            (ret[i].partNo = ret[j].partNo /\ ret[i].partName = ret[j].partName)
                => i = j

\* a search that found the same part under the same name on two lines, and
\* returned it once
C1_Witness ==
    /\ pc = "searched"
    /\ Len(ret) > 0
    /\ Len(ret) < Len(locatedResults(documents[1].textMap, args.query))

(***************************************************************************)
(* Search with a blank query, or in a document that holds nothing          *)
(***************************************************************************)
BlankQueries == {"", " ", "   ", NL}

\* null, a document with neither text nor textMap, one without pages and one
\* with a page without lines
EmptyDocuments ==
    {NoDocument,
     [pages |-> <<>>, pageObjects |-> TRUE, hasTextMap |-> FALSE, textMap |-> <<>>,
      text |-> ""],
     documentOf(<<>>),
     documentOf(<< <<>> >>)}

InitBlank ==
    /\ pc = "query"
    /\ \/ /\ \E texts \in SeqsUpTo(SearchLinePool, MaxSearchLines), onePage \in BOOLEAN :
                documents = <<Catalogue(texts, onePage)>>
          /\ \E q \in BlankQueries : args = [query |-> q]
       \/ /\ \E d \in EmptyDocuments : documents = <<d>>
          /\ \E q \in BlankQueries \cup SearchQueries : args = [query |-> q]
    /\ ret = <<>>
    /\ matches = <<>>

SpecBlank == InitBlank /\ [][SearchPartsInTextWithLocation]_vars

\* the document is null or holds no page, no line and no text
HoldsNothing(document) ==
    \/ document = NoDocument
    \/ /\ Len(document.textMap) = 0
       /\ document.text = ""
       /\ \A n \in 1..Len(document.pages) : document.pages[n] = ""

\* C13: a search with an empty or white-space query, or in a document that is
\* null or holds no page, no line and no text, returns the empty list
C13_NothingFound ==
    (/\ pc = "searched"
     /\ trim(args.query) = "" \/ HoldsNothing(documents[1]))
        => ret = <<>>

\* a search with a white-space query in a catalogue in which a search for
\* "oil filter" finds a part
C13_Witness ==
    /\ pc = "searched"
    /\ args.query # ""
    /\ trim(args.query) = ""
    /\ ret = <<>>
    /\ ~HoldsNothing(documents[1])
    /\ Len(searchPartsInTextWithLocation(documents[1], "oil filter")) > 0

(***************************************************************************)
(* Search for air filters over small catalogues                            *)
(***************************************************************************)
MaxAirLines == 2

EngineAirLine == "Engine air intake filter, RE12345"

\* a line of more than MaxContextLength characters
LongLine ==
    "Air cleaner element assembly RE99887 with primary element, secondary "
    \o "element, cover, clamp, gasket, wing nut, dust cup, baffle, restriction "
    \o "indicator, mounting band, inlet hood, rain cap and outlet adapter kit "
    \o "for engine"

AirLinePool ==
    {EngineAirLine,
     "Condenser air cleaner element assembly AT4567",
     "Evaporator air filter AT3344",
     "Engine air intake filter, oil bath RE54321",
     "Air filter RE11111",
     "Air filter RE11111 set",
     LongLine}

AirQueries == {"air filter part number", "air cleaner element"}

InitRanking ==
    /\ pc = "query"
    /\ \E texts \in SeqsUpTo(AirLinePool, MaxAirLines), onePage \in BOOLEAN :
          documents = <<Catalogue(texts, onePage)>>
    /\ \E q \in AirQueries : args = [query |-> q]
    /\ ret = <<>>
    /\ matches = <<>>

\* a call of searchPartsInTextWithLocation; matches is its results array
\* before the sort and the duplicate filter
SearchAndRank ==
    /\ pc = "query"
    /\ ret' = searchPartsInTextWithLocation(documents[1], args.query)
    /\ matches' = locatedResults(documents[1].textMap, args.query)
    /\ pc' = "searched"
    /\ UNCHANGED <<args, documents>>

SpecRanking == InitRanking /\ [][SearchAndRank]_vars

\* the position in the textMap of the entry of a page and line
PositionOf(textMap, pageNumber, lineNumber) ==
    CHOOSE i \in 1..Len(textMap) :
        textMap[i].pageNumber = pageNumber /\ textMap[i].lineNumber = lineNumber

\* the key terms and the term set of the search of the call
TermsOfCall == toLowerCase(extractKeyTermsFromNaturalLanguage(args.query))
WordsOfCall == QueryWords(TermsOfCall)

\* the context window of a line of the textMap
WindowOf(lineData) ==
    contextOf(lineData.context.previousLine, lineData.text, lineData.context.nextLine)

\* the line a result comes from
LineOf(result) ==
    documents[1].textMap[PositionOf(documents[1].textMap, result.location.pageNumber,
                                    result.location.lineNumber)]

PassesGate(lineData) == isRelevantForQuery(WindowOf(lineData), TermsOfCall, WordsOfCall)
ScoreOf(lineData) == calculateEnhancedRelevance(WindowOf(lineData), TermsOfCall, WordsOfCall)

\* the line is one the first pass keeps
IsCandidate(lineData) ==
    /\ includesAny(toLowerCase(lineData.text), WordsOfCall)
    /\ ~isIndexEntry(lineData.text)

MentionsHvac(context) ==
    includesAny(toLowerCase(context), <<"condenser", "evaporator", "operator station">>)

\* the document holds the engine air intake line and a line whose context
\* window mentions an HVAC term
HoldsEngineAndHvacLine ==
    /\ \E i \in 1..Len(documents[1].textMap) : documents[1].textMap[i].text = EngineAirLine
    /\ \E i \in 1..Len(documents[1].textMap) : MentionsHvac(WindowOf(documents[1].textMap[i]))

\* C15: for the query "air filter part number" and a document that holds the
\* line "Engine air intake filter, RE12345" and a line whose context mentions
\* an HVAC term, no result comes from a line whose context mentions an HVAC
\* term, and RE12345 is ranked above every other part of such a context
C15_HvacLineNotReturned ==
    (/\ pc = "searched"
     /\ args.query = "air filter part number"
     /\ HoldsEngineAndHvacLine)
        => /\ \A r \in 1..Len(ret) : ~MentionsHvac(WindowOf(LineOf(ret[r])))
           /\ \A i, j \in 1..Len(ret) :
                 (/\ ret[i].partNo = "RE12345"
                  /\ ret[j].partNo # "RE12345"
                  /\ MentionsHvac(WindowOf(LineOf(ret[j])))) => i < j

\* C17 as stated: the context of a result of search has at most 200 characters
C17_ContextAtMost200 ==
    pc = "searched" =>
        \A r \in 1..Len(ret) : Len(ret[r].location.context) <= MaxContextLength

\* C17 (amended): the context of a result of search has at most 203
\* characters: at most 200 characters of the context window and, when the
\* window is longer, the three characters "..."
C17_ContextAtMost203 ==
    pc = "searched" =>
        \A r \in 1..Len(ret) :
            /\ Len(ret[r].location.context) <= MaxContextLength + Len(Ellipsis)
            /\ Len(WindowOf(LineOf(ret[r]))) <= MaxContextLength
                  => ret[r].location.context = WindowOf(LineOf(ret[r]))
            /\ Len(WindowOf(LineOf(ret[r]))) > MaxContextLength
                  => ret[r].location.context
                        = substring0(WindowOf(LineOf(ret[r])), MaxContextLength)
                            \o Ellipsis

\* a result of a line whose context window has more than 200 characters
C17_Witness ==
    /\ pc = "searched"
    /\ \E r \in 1..Len(ret) :
          /\ Len(WindowOf(LineOf(ret[r]))) > MaxContextLength + Len(Ellipsis)
          /\ Len(ret[r].location.context) = MaxContextLength + Len(Ellipsis)

\* C18: the list search returns is in non-increasing relevance, and of the
\* results found with the same partNo and partName it holds one whose
\* relevance is the highest of them
C18_RankedByRelevance ==
    pc = "searched" =>
        /\ \A i, j \in 1..Len(ret) : i < j => ret[i].relevance >= ret[j].relevance
        /\ \A n \in 1..Len(matches) :
              \E k \in 1..Len(ret) :
                  /\ ret[k].partNo = matches[n].partNo
                  /\ ret[k].partName = matches[n].partName
                  /\ ret[k].relevance >= matches[n].relevance

\* a search that found a part under one name twice, first with the lower
\* relevance
C18_Witness ==
    /\ pc = "searched"
    /\ Len(ret) > 0
    /\ \E m, n \in 1..Len(matches) :
          /\ m < n
          /\ matches[m].partNo = matches[n].partNo
          /\ matches[m].partName = matches[n].partName
          /\ matches[m].relevance < matches[n].relevance

(***************************************************************************)
(* handleDirectBypass: the assembly of the results of a request.  The      *)
(* handler runs without interruption up to the await of the page images:   *)
(* the search, the "214" loop, the duplicate filter, the universal page    *)
(* navigation fix, and of each enhanceResultWithPageImage call the part    *)
(* before its first await, which chooses the page to render.  The image    *)
(* fields that rendering adds to a location are left out.                  *)
(***************************************************************************)
\* the page the loop of handleDirectBypass redirects to
ContentPage == 214

\* .slice(0, 5) and partName.substring(0, 20) of the duplicate filter
MaxBypassMatches == 5
NamePrefixLength == 20

\* { id, machineName, originalName, fileName, pdfPath, text, pages, textMap }
\* of an uploaded file, pdfData being what extractTextFromPDF returned
sessionDocument(pdfData, machineName, fileName) ==
    pdfData @@ [machineName |-> machineName,
                fileName |-> fileName,
                pdfPath |-> "/uploads/" \o fileName]

\* null where a pdfInfo is expected
NoPdfInfo == [pdfUrl |-> "", pageNumber |-> 0, type |-> ""]

\* parts.forEach(p => matches.push({ machineName, pdfPath, partNo, partName,
\* location })); a match has no pageReference and no pdfInfo yet
matchesOf(doc, parts) ==
    [k \in 1..Len(parts) |->
        [machineName |-> doc.machineName,
         pdfPath |-> doc.pdfPath,
         partNo |-> parts[k].partNo,
         partName |-> parts[k].partName,
         location |-> parts[k].location,
         pageReference |-> NoPageReference,
         pdfInfo |-> NoPdfInfo]]

\* the matches of the documents of the session, in document order
foundMatches(sessionDocuments, query) ==
    Flatten([d \in 1..Len(sessionDocuments) |->
                matchesOf(sessionDocuments[d],
                          searchPartsInTextWithLocation(sessionDocuments[d], query))])

\* the loop over the matches: a context that holds "214" sends the match to
\* page 214
bypassRedirect(match) ==
    IF /\ match.location.context # ""
       /\ includes(match.location.context, toString(ContentPage))
    THEN [match EXCEPT !.location.pageNumber = ContentPage,
                       !.location.originalIndexPage = match.location.pageNumber,
                       !.location.isFollowedFromIndex = TRUE]
    ELSE match

enhancedMatchesOf(found) == [k \in 1..Len(found) |-> bypassRedirect(found[k])]

\* x.partNo === item.partNo &&
\* x.partName.substring(0, 20) === item.partName.substring(0, 20)
sameMatch(x, item) ==
    /\ x.partNo = item.partNo
    /\ substring0(x.partName, NamePrefixLength)
          = substring0(item.partName, NamePrefixLength)

\* enhancedMatches.slice(0, 5).filter(first of its kind)
filteredMatchesOf(enhancedMatches) ==
    LET Filtered(arr) ==
            Pick(arr, {i \in 1..Len(arr) :
                        \A j \in 1..(i - 1) : ~sameMatch(arr[j], arr[i])}, 1)
    IN  Filtered(slice0(enhancedMatches, MaxBypassMatches))

\* the universal page navigation fix of a match
universalFix(match) ==
    LET Fixed(pageReference) ==
            IF pageReference # NoPageReference
            THEN [match EXCEPT !.location.pageNumber = pageReference.targetPage,
                               !.location.originalIndexPage = match.location.pageNumber,
                               !.pageReference = pageReference]
            ELSE match
    IN  Fixed(extractPageReferenceFromContext(match.location.context,
                                              match.location.pageNumber))

fixedMatchesOf(filteredMatches) ==
    [k \in 1..Len(filteredMatches) |-> universalFix(filteredMatches[k])]

\* enhanceResultWithPageImage up to its first await: the result, with the
\* page reference stored in it, and the page to render; pending is FALSE if
\* the call returns the result at once
targetOf(result, sessionDocuments) ==
    LET matchingDoc(d) ==
            \/ sessionDocuments[d].machineName = result.machineName
            \/ sessionDocuments[d].pdfPath = result.pdfPath
        Targeted(doc, pageReference) ==
            IF pageReference # NoPageReference
            THEN [result |-> [result EXCEPT !.pageReference = pageReference],
                  targetPageNumber |-> pageReference.targetPage,
                  pdfFilename |-> doc.fileName,
                  pending |-> TRUE]
            ELSE [result |-> result,
                  targetPageNumber |-> result.location.pageNumber,
                  pdfFilename |-> doc.fileName,
                  pending |-> TRUE]
    IN  IF \/ result.location.pageNumber = 0
           \/ \A d \in 1..Len(sessionDocuments) : ~matchingDoc(d)
        THEN [result |-> result,
              targetPageNumber |-> result.location.pageNumber,
              pdfFilename |-> "",
              pending |-> FALSE]
        ELSE Targeted(sessionDocuments[CHOOSE d \in 1..Len(sessionDocuments) :
                                          /\ matchingDoc(d)
                                          /\ \A e \in 1..(d - 1) : ~matchingDoc(e)],
                      extractPageReferenceFromContext(result.location.context,
                                                      result.location.pageNumber))

\* the calls of fixedMatches.map(result => enhanceResultWithPageImage(...))
enhanceCallsOf(fixedMatches, sessionDocuments) ==
    [k \in 1..Len(fixedMatches) |-> targetOf(fixedMatches[k], sessionDocuments)]

\* the lists of the handler once the calls are made: a call stores the
\* page reference in its result, which is the object of filteredMatches too
\* if the universal fix returned the match as it was
listsOf(filteredMatches, fixedMatches, calls) ==
    [filteredMatches |->
        [k \in 1..Len(calls) |->
            IF fixedMatches[k] = filteredMatches[k] THEN calls[k].result
            ELSE filteredMatches[k]],
     fixedMatches |-> [k \in 1..Len(calls) |-> calls[k].result]]

\* { pdfUrl: `/pdfs/${pdfFilename}#page=${targetPageNumber}`, pageNumber, type }
universalPdfInfo(call) ==
    [pdfUrl |-> "/pdfs/" \o call.pdfFilename \o "#page=" \o toString(call.targetPageNumber),
     pageNumber |-> call.targetPageNumber,
     type |-> "pdf"]

\* what a call resolves to: with the PDF link of the page rendered, or, if no
\* image could be made, the result alone
enhancedResult(call, rendered) ==
    IF call.pending /\ rendered
    THEN [call.result EXCEPT !.pdfInfo = universalPdfInfo(call)]
    ELSE call.result

(***************************************************************************)
(* Direct bypass requests over small catalogues                            *)
(***************************************************************************)
BypassLinePool ==
    {"Hydraulic pump AB1234",
     "Hydraulic pump RE214508",
     "12 Hydraulic Pump AB1234",
     "214 Pump assembly AB1234",
     "185 Brake Valve 214"}

BypassQueries == {"pump", "hydraulic pump"}

InitBypass ==
    /\ pc = "bypass"
    /\ \E texts \in SeqsUpTo(BypassLinePool, MaxSearchLines), onePage \in BOOLEAN :
          documents = <<sessionDocument(Catalogue(texts, onePage),
                                        "310SK", "310SK-PC11112.pdf")>>
    /\ \E q \in BypassQueries : args = [query |-> q]
    /\ ret = <<>>
    /\ matches = <<>>

\* the handler up to await Promise.all(...)
HandleDirectBypass ==
    /\ pc = "bypass"
    /\ \E filteredMatches \in
            {filteredMatchesOf(enhancedMatchesOf(foundMatches(documents, args.query)))} :
        \E fixedMatches \in {fixedMatchesOf(filteredMatches)} :
            /\ ret' = enhanceCallsOf(fixedMatches, documents)
            /\ matches' = listsOf(filteredMatches, fixedMatches, ret')
    /\ pc' = "rendering"
    /\ UNCHANGED <<args, documents>>

\* the calls resolve: limitedMatches
RenderPageImages ==
    /\ pc = "rendering"
    /\ \E rendered \in [1..Len(ret) -> BOOLEAN] :
          ret' = [k \in 1..Len(ret) |-> enhancedResult(ret[k], rendered[k])]
    /\ pc' = "responded"
    /\ UNCHANGED <<args, documents, matches>>

NextBypass == HandleDirectBypass \/ RenderPageImages

SpecBypass == InitBypass /\ [][NextBypass]_vars

\* the number of times the page of the k-th result was re-targeted: by the
\* loop of the handler, by the universal fix, by enhanceResultWithPageImage
Retargets(k) ==
    (IF matches.filteredMatches[k].location.isFollowedFromIndex THEN 1 ELSE 0)
    + (IF matches.fixedMatches[k].location.pageNumber
            # matches.filteredMatches[k].location.pageNumber THEN 1 ELSE 0)
    + (IF ret[k].targetPageNumber
            # matches.fixedMatches[k].location.pageNumber THEN 1 ELSE 0)

\* C6: along the assembly of the results of a request each result has its
\* page re-targeted at most once, and a result the index redirect has
\* re-targeted keeps the page of that redirect
C6_RetargetedAtMostOnce ==
    pc = "rendering" =>
        \A k \in 1..Len(ret) :
            /\ Retargets(k) <= 1
            /\ matches.filteredMatches[k].location.isFollowedFromIndex =>
                  /\ matches.fixedMatches[k].location.pageNumber = ContentPage
                  /\ ret[k].targetPageNumber = ContentPage

(***************************************************************************)
(* Search over long catalogues: filler lines that hold no query term, then *)
(* copies of one candidate line, then a candidate line of its own, a page  *)
(* for each line.  The long catalogues reach the limits of the two passes. *)
(***************************************************************************)
MaxFillerLines == 2
MaxCandidateLines == 8

FillerLine == "Hose clamp"
RepeatedLine == "Oil filter RE508960"
LastLine == "Oil filter kit AT123456"

BudgetQueries == {"oil filter", "show me the oil filter kit"}

\* <<filler lines, copies of the repeated line, last lines>>
ShortCatalogues ==
    {<<f, n, m>> : f \in 0..MaxFillerLines, n \in 0..MaxCandidateLines, m \in 0..1}

LongCatalogues ==
    {<<0, MaxAnalysedLines - 1, 1>>, <<0, MaxAnalysedLines, 1>>,
     <<0, MaxRelevantLines, 1>>,
     <<MaxLinesToProcess - 1, 0, 1>>, <<MaxLinesToProcess, 0, 1>>}

BudgetCatalogue(c) ==
    Catalogue([k \in 1..(c[1] + c[2] + c[3]) |->
                  IF k <= c[1] THEN FillerLine
                  ELSE IF k <= c[1] + c[2] THEN RepeatedLine
                  ELSE LastLine], FALSE)

InitBudget ==
    /\ pc = "query"
    /\ \/ \E c \in ShortCatalogues, q \in BudgetQueries :
             /\ documents = <<BudgetCatalogue(c)>>
             /\ args = [query |-> q]
       \/ \E c \in LongCatalogues :
             /\ documents = <<BudgetCatalogue(c)>>
             /\ args = [query |-> "oil filter"]
    /\ ret = <<>>
    /\ matches = <<>>

\* the lines the first pass of the call kept
keptLines(textMap, query) ==
    relevantLines(textMap,
                  QueryWords(toLowerCase(extractKeyTermsFromNaturalLanguage(query))))

\* a call of searchPartsInTextWithLocation; matches is its relevantLines
SearchWithinLimits ==
    /\ pc = "query"
    /\ ret' = searchPartsInTextWithLocation(documents[1], args.query)
    /\ matches' = keptLines(documents[1].textMap, args.query)
    /\ pc' = "searched"
    /\ UNCHANGED <<args, documents>>

SpecBudget == InitBudget /\ [][SearchWithinLimits]_vars

\* C11: search keeps lines of the first 3000 entries only, in document
\* order, 200 at most, and every result comes from one of the first 100
\* lines kept
C11_WithinLimits ==
    pc = "searched" =>
        /\ Len(matches) <= MaxRelevantLines
        /\ \A k \in 1..Len(matches) :
              PositionOf(documents[1].textMap, matches[k].pageNumber,
                         matches[k].lineNumber) <= MaxLinesToProcess
        /\ \A k \in 1..(Len(matches) - 1) :
              PositionOf(documents[1].textMap, matches[k].pageNumber,
                         matches[k].lineNumber)
                < PositionOf(documents[1].textMap, matches[k + 1].pageNumber,
                             matches[k + 1].lineNumber)
        /\ \A r \in 1..Len(ret) :
              \E k \in 1..Min(Len(matches), MaxAnalysedLines) :
                  /\ ret[r].location.pageNumber = matches[k].pageNumber
                  /\ ret[r].location.lineNumber = matches[k].lineNumber

\* a catalogue with more than 100 candidate lines: the part of a later line is
\* not among the results, those of the first lines are
C11_Witness ==
    /\ pc = "searched"
    /\ Len(matches) > MaxAnalysedLines
    /\ Len(ret) > 0
    /\ \E k \in (MaxAnalysedLines + 1)..Len(matches) :
          /\ matches[k].text = LastLine
          /\ \A r \in 1..Len(ret) : ret[r].partNo # "AT123456"

(***************************************************************************)
(* Repeated calls: search, search once more with the same arguments, and   *)
(* processSearchResults on the list of a search.  args.documents is the    *)
(* document list as it was passed to the first call.                       *)
(***************************************************************************)
RepeatQueries == {"oil filter", "pump"}

\* catalogues that exceed the limits of the two passes
TruncatedCatalogues ==
    {<<0, MaxRelevantLines, 1>>, <<MaxLinesToProcess - 1, 1, 1>>}

\* the lines of the small catalogues, and an index line
RepeatLinePool == SearchLinePool \cup {"Oil filter element ..... 2"}

\* the catalogue with its pages held as strings
WithStringPages(document) == [document EXCEPT !.pageObjects = FALSE]

InitRepeat ==
    /\ pc = "query"
    /\ \/ /\ \E texts \in SeqsUpTo(RepeatLinePool, MaxSearchLines),
                onePage \in BOOLEAN, strings \in BOOLEAN :
                documents = <<IF strings THEN WithStringPages(Catalogue(texts, onePage))
                              ELSE Catalogue(texts, onePage)>>
          /\ \E q \in RepeatQueries :
                args = [query |-> q, documents |-> documents]
       \/ /\ \E c \in TruncatedCatalogues : documents = <<BudgetCatalogue(c)>>
          /\ args = [query |-> "oil filter", documents |-> documents]
    /\ ret = <<>>
    /\ matches = <<>>

\* a call of searchPartsInTextWithLocation, and a second call with the same
\* arguments; matches is the list of the call before
SearchCall ==
    /\ pc \in {"query", "searched"}
    /\ ret' = searchPartsInTextWithLocation(documents[1], args.query)
    /\ matches' = ret
    /\ documents' = <<documentAfterSearch(documents[1], args.query)>>
    /\ pc' = IF pc = "query" THEN "searched" ELSE "repeated"
    /\ UNCHANGED args

\* a call of processSearchResults on the list of the search; the call reads
\* the pages of the documents and writes none
ProcessCall ==
    /\ pc \in {"searched", "repeated"}
    /\ \E outcome \in {processSearchResults(ret, documents, args.query)} :
          /\ ret' = IF outcome.error = Null THEN outcome.value ELSE <<>>
          /\ pc' = IF outcome.error = Null THEN "processed" ELSE "rejected"
    /\ UNCHANGED <<args, documents, matches>>

NextRepeat == SearchCall \/ ProcessCall
SpecRepeat == InitRepeat /\ [][NextRepeat]_vars

MaxContentLines == 4

ContentLinePool ==
    {"Oil Filter RE508960", "engine OIL FILTER kit", "Order: AB1234", "Hose clamp"}

ContentTerms == {"oil filter", "Pump"}

\* a document of string pages
StringDocument(pages) ==
    [pages |-> pages, pageObjects |-> FALSE, hasTextMap |-> TRUE, textMap |-> <<>>,
     text |-> ""]

InitContent ==
    /\ pc = "page"
    /\ \E texts \in SeqsUpTo(ContentLinePool, MaxContentLines) \ {<<>>},
          term \in ContentTerms, second \in BOOLEAN :
          /\ args = [targetPageNumber |-> 7, searchTerm |-> term,
                     pageContent |-> join(texts, NL)]
          /\ documents =
                (IF second THEN <<StringDocument(1 :> "Contents")>> ELSE <<>>)
                \o <<StringDocument(7 :> join(texts, NL))>>
    /\ ret = Null
    /\ matches = <<>>

\* a call of findContentOnPage; matches is the partNumbers array of the
\* target page
FindContentOnPage ==
    /\ pc = "page"
    /\ ret' = findContentOnPage(documents, args.targetPageNumber, args.searchTerm)
    /\ matches' = extractPartNumbersFromPage(args.pageContent)
    /\ pc' = "looked"
    /\ UNCHANGED <<args, documents>>

SpecContent == InitContent /\ [][FindContentOnPage]_vars

\* the lines of the target page
TargetLines == splitLines(args.pageContent)

\* whether line i of the target page holds the term, whatever the case
HoldsTerm(i) == includes(toLowerCase(TargetLines[i]), toLowerCase(args.searchTerm))

MaxQueryWords == 3

QueryPrefixes == {"", "show me ", "I need "}

QueryWordPool == {"oil", "filter", "air", "the", "Engine", "transmission", "housing"}

NamedQueries ==
    {"air filter part number", "Where is the Air  Cleaner for the engine",
     "spark plug", "find me a fuel element of the engine", ""}

NormalizerQueries ==
    {x \o join(ws, " ") : x \in QueryPrefixes,
                          ws \in SeqsUpTo(QueryWordPool, MaxQueryWords) \ {<<>>}}
    \cup NamedQueries

InitNormalizer ==
    /\ pc = "query"
    /\ \E q \in NormalizerQueries : args = [query |-> q]
    /\ ret = Null
    /\ documents = <<>>
    /\ matches = <<>>

ExtractKeyTerms ==
    /\ pc = "query"
    /\ ret' = extractKeyTermsFromNaturalLanguage(args.query)
    /\ pc' = "normalized"
    /\ UNCHANGED <<args, documents, matches>>

SpecNormalizer == InitNormalizer /\ [][ExtractKeyTerms]_vars

\* the match of the p-th component pattern in s
MatchOf(s, p) == Exec(s, 1, componentPatterns[p])

\* r is the text matched in s by the first component pattern, in list order,
\* that matches s, if there is one
IsFirstMatchIn(s, r) ==
    \A p \in 1..Len(componentPatterns) :
        (/\ MatchOf(s, p).end # 0
         /\ \A q \in 1..(p - 1) : MatchOf(s, q).end = 0)
            => r = MatchedText(s, MatchOf(s, p))

\* C23 as stated: the normalizer returns the text matched by the first
\* component pattern that matches the cleaned query
C23_FirstPatternOfCleaned ==
    pc = "normalized" =>
        IsFirstMatchIn(CleanedQuery(trim(toLowerCase(args.query))), ret)

\* C23 (amended): the normalizer returns the text matched by the first
\* component pattern, in list order, that matches the lower-case, trimmed
\* query, in preference to the cleaned query
C23_FirstPatternOfQuery ==
    pc = "normalized" =>
        IsFirstMatchIn(trim(toLowerCase(args.query)), ret)

\* a query that the first and the seventh pattern match, and whose cleaned
\* form is another text than the one returned
C23_Witness ==
    /\ pc = "normalized"
    /\ MatchOf(trim(toLowerCase(args.query)), 1).end # 0
    /\ MatchOf(trim(toLowerCase(args.query)), 7).end # 0
    /\ ret = "oil filter"
    /\ CleanedQuery(trim(toLowerCase(args.query))) # ret
    /\ CleanedQuery(trim(toLowerCase(args.query))) # trim(toLowerCase(args.query))

(***************************************************************************)
(* Calls of the relevance gate.  A context is a head, a run of catalogue   *)
(* text of a chosen length, and a tail.                                    *)
(***************************************************************************)
GateHeads == {"Air", "Repair", "Cabin", "Airflow", "Seat", "Engine air intake"}

GateTails == {"filter", "filters", "air filter", "cleaner assembly", "gasket", "elements"}

GateText == " kit with seat belt and cushion mount bracket, washers, bolts, nuts and clamp "

GateLengths == {1, 40, 44, 45, 46, 47, 48, 60}

GateQueries == {"air filter", "Air Cleaner element", "seat belt"}

InitGate ==
    /\ pc = "context"
    /\ \E head \in GateHeads, n \in GateLengths, tail \in GateTails, q \in GateQueries :
          args = [context |-> head \o SubSeq(GateText, 1, n) \o " " \o tail,
                  originalQuery |-> q]
    /\ ret = Null
    /\ documents = <<>>
    /\ matches = <<>>

IsRelevantForQuery ==
    /\ pc = "context"
    /\ ret' = isRelevantForQuery(args.context, args.originalQuery,
                                 Words(toLowerCase(args.originalQuery)))
    /\ pc' = "gated"
    /\ UNCHANGED <<args, documents, matches>>

SpecGate == InitGate /\ [][IsRelevantForQuery]_vars

\* the positions of s at which t begins
Occurrences(s, t) ==
    {i \in 1..(Len(s) - Len(t) + 1) : SubSeq(s, i, i + Len(t) - 1) = t}

\* the positions of s at which one of the terms begins
OccurrencesOfAny(s, terms) ==
    UNION {Occurrences(s, terms[k]) : k \in 1..Len(terms)}

\* the call is one for an air-filter query
IsAirFilterCall ==
    \/ includes(toLowerCase(args.originalQuery), "air filter")
    \/ includes(toLowerCase(args.originalQuery), "air cleaner")

\* C24: a context accepted for an air-filter query holds a domain term (air,
\* intake, breather, cabin, cab) and a filter term (filter, element, cleaner,
\* assembly) that begin at most 50 characters apart
C24_TermsPresentAndClose ==
    (pc = "gated" /\ IsAirFilterCall /\ ret = TRUE) =>
        \E i \in OccurrencesOfAny(toLowerCase(args.context),
                                  <<"air", "intake", "breather", "cabin", "cab">>),
           j \in OccurrencesOfAny(toLowerCase(args.context),
                                  <<"filter", "element", "cleaner", "assembly">>) :
            Abs(i - j) <= 50

(***************************************************************************)
(* Calls of calculatePartNumberConfidence.  A value is up to four letters  *)
(* and a run of digits; a line is a label, the value and a description.    *)
(***************************************************************************)
ConfidenceLetters == {"", "R", "RE", "REX", "REXY", "re"}

ConfidenceDigits == {"5089", "50896", "508960", "50896012", "508960123"}

ConfidenceLabels ==
    {"", "Part No: ", "P/N ", "Catalog: ", "Model ",
     "Order catalog model specification part number p/n: "}

ConfidenceDescriptions == {"", " Filter"}

InitConfidence ==
    /\ pc = "value"
    /\ \E l \in ConfidenceLabels, a \in ConfidenceLetters, d \in ConfidenceDigits,
          x \in ConfidenceDescriptions :
          args = [line |-> l \o a \o d \o x, partNumber |-> a \o d]
    /\ ret = 0
    /\ documents = <<>>
    /\ matches = <<>>

CalculatePartNumberConfidence ==
    /\ pc = "value"
    /\ ret' = calculatePartNumberConfidence(args.line, args.partNumber)
    /\ pc' = "scored"
    /\ UNCHANGED <<args, documents, matches>>

SpecConfidence == InitConfidence /\ [][CalculatePartNumberConfidence]_vars

\* v is minLetters to 3 capital letters followed by 5 to 8 digits
IsTightShape(v, minLetters) ==
    \E k \in minLetters..3 :
        /\ Len(v) - k >= 5
        /\ Len(v) - k <= 8
        /\ \A i \in 1..k : CharAt(v, i) \in Upper
        /\ \A i \in (k + 1)..Len(v) : CharAt(v, i) \in Digit

\* what the labels of the line and the length of the value add to the base
ScoreWithoutShape ==
    LET l == toLowerCase(args.line)
    IN  50 + (IF includes(l, "part no") \/ includes(l, "part number") THEN 30 ELSE 0)
           + (IF includes(l, "p/n") THEN 25 ELSE 0)
           + (IF includes(l, "order") THEN 20 ELSE 0)
           + (IF includes(l, "catalog") THEN 15 ELSE 0)
           + (IF includes(l, "specification") THEN 10 ELSE 0)
           + (IF includes(l, "model") THEN 10 ELSE 0)
           + (IF Len(args.partNumber) >= 8 THEN 10 ELSE 0)

\* C25 as stated: a value of 1 to 3 letters and 5 to 8 digits gets the +20
\* shape bonus, and the confidence is between 50 and 100
C25_ShapeBonusFromOneLetter ==
    pc = "scored" =>
        /\ IsTightShape(args.partNumber, 1) => ret = Min(ScoreWithoutShape + 20, 100)
        /\ ret >= 50
        /\ ret <= 100

\* C25 (amended): a value of 2 to 3 letters and 5 to 8 digits gets the +20
\* shape bonus, a value of one letter and 5 to 8 digits does not, and the
\* confidence is between 50 and 100
C25_ShapeBonusFromTwoLetters ==
    pc = "scored" =>
        /\ IsTightShape(args.partNumber, 2) => ret = Min(ScoreWithoutShape + 20, 100)
        /\ (IsTightShape(args.partNumber, 1) /\ ~IsTightShape(args.partNumber, 2))
              => ret = Min(ScoreWithoutShape, 100)
        /\ ret >= 50
        /\ ret <= 100

\* the value RE508960 on a line without a label: 50 + 20 + 10
C25_Witness ==
    /\ pc = "scored"
    /\ args.partNumber = "RE508960"
    /\ args.line = "RE508960 Filter"
    /\ ret = 80

(***************************************************************************)
(* Concurrent requests on one session.  Each request is a DELETE           *)
(* /api/documents/:documentId, a POST /api/upload or a POST /api/search;   *)
(* a handler runs without interruption from one await to the next, and the *)
(* handlers of the requests in flight interleave at their awaits.  pc, args *)
(* and ret are functions of the request; documents and matches are the     *)
(* documents and uploadedFiles arrays of the session.                      *)
(***************************************************************************)
MaxRequests == 2

Requests == 1..MaxRequests

\* the PDF files of src/pdfs
PdfFolder == <<"310SK.pdf", "644K.pdf">>

\* array.findIndex(x => x.id === id)
findIndex(array, id) ==
    IF \E k \in 1..Len(array) : array[k].id = id
    THEN (CHOOSE k \in 1..Len(array) :
              /\ array[k].id = id
              /\ \A j \in 1..(k - 1) : array[j].id # id) - 1
    ELSE -1

\* array.splice(index, 1), for an index that is not negative
splice(array, index) ==
    IF index < Len(array)
    THEN SubSeq(array, 1, index) \o SubSeq(array, index + 2, Len(array))
    ELSE array

\* the entry of documents and of uploadedFiles for a stored file
storedFile(id, originalName, source) ==
    [id |-> id, originalName |-> originalName, source |-> source]

\* uuidv4(): an id no other call returns
uuidv4(r, k) == "id-" \o toString(r) \o "-" \o toString(k)

StoredSessions ==
    {<<>>,
     <<storedFile("a", "a.pdf", "upload"), storedFile("b", "b.pdf", "upload"),
       storedFile("c", "c.pdf", "upload")>>}

RequestKinds ==
    {[kind |-> "delete", documentId |-> "a"], [kind |-> "delete", documentId |-> "b"],
     [kind |-> "delete", documentId |-> "none"],
     [kind |-> "upload", documentId |-> Null], [kind |-> "search", documentId |-> Null]}

LocalsOf(request) ==
    [kind |-> request.kind, documentId |-> request.documentId,
     docIndex |-> -1, fileIndex |-> -1, next |-> 0, importedCount |-> 0]

InitSession ==
    /\ pc = [r \in Requests |-> "request"]
    /\ \E requests \in [Requests -> RequestKinds] :
          args = [r \in Requests |-> LocalsOf(requests[r])]
    /\ ret = [r \in Requests |-> Null]
    /\ documents \in StoredSessions
    /\ matches = documents

\* res.json / res.status(...).json of request r
Respond(r, response) ==
    /\ pc' = [pc EXCEPT ![r] = "responded"]
    /\ ret' = [ret EXCEPT ![r] = response]

\* DELETE /api/documents/:documentId up to await fs.unlink(filePath)
DeleteLookup(r) ==
    /\ pc[r] = "request"
    /\ args[r].kind = "delete"
    /\ LET docIndex == findIndex(documents, args[r].documentId)
           fileIndex == findIndex(matches, args[r].documentId)
       IN  IF docIndex = -1
           THEN /\ Respond(r, [status |-> 404, count |-> 0])
                /\ UNCHANGED args
           ELSE /\ args' = [args EXCEPT ![r].docIndex = docIndex,
                                        ![r].fileIndex = fileIndex]
                /\ pc' = [pc EXCEPT ![r] = "unlink"]
                /\ UNCHANGED ret
    /\ UNCHANGED <<documents, matches>>

\* DELETE /api/documents/:documentId after the await, whether the file was
\* unlinked or not: the entries at the indices found before the await are
\* removed
DeleteSplice(r) ==
    /\ pc[r] = "unlink"
    /\ documents' = splice(documents, args[r].docIndex)
    /\ matches' = IF args[r].fileIndex # -1
                  THEN splice(matches, args[r].fileIndex)
                  ELSE matches
    /\ Respond(r, [status |-> 200, count |-> Len(documents')])
    /\ UNCHANGED args

\* POST /api/upload up to await extractTextFromPDF(filePath)
UploadReceive(r) ==
    /\ pc[r] = "request"
    /\ args[r].kind = "upload"
    /\ pc' = [pc EXCEPT ![r] = "extract"]
    /\ UNCHANGED <<args, ret, documents, matches>>

\* POST /api/upload after the await: the text was extracted, or the
\* extraction threw
UploadStore(r) ==
    /\ pc[r] = "extract"
    /\ args[r].kind = "upload"
    /\ \E extracted \in BOOLEAN :
          IF extracted
          THEN LET document == storedFile(uuidv4(r, 0),
                                          "upload-" \o toString(r) \o ".pdf", "upload")
               IN  /\ documents' = Append(documents, document)
                   /\ matches' = Append(matches, document)
                   /\ Respond(r, [status |-> 200, count |-> Len(documents')])
          ELSE /\ Respond(r, [status |-> 500, count |-> 0])
               /\ UNCHANGED <<documents, matches>>
    /\ UNCHANGED args

\* POST /api/search: autoImportPDFsIfNeeded up to await fs.access(pdfDir)
AutoImportIfNeeded(r) ==
    /\ pc[r] = "request"
    /\ args[r].kind = "search"
    /\ IF Len(documents) > 0
       THEN Respond(r, [status |-> 200, imported |-> FALSE, count |-> Len(documents)])
       ELSE pc' = [pc EXCEPT ![r] = "access"] /\ UNCHANGED ret
    /\ UNCHANGED <<args, documents, matches>>

\* from await fs.access(pdfDir) to await fs.readdir(pdfDir)
AccessFolder(r) ==
    /\ pc[r] = "access"
    /\ \E exists \in BOOLEAN :
          IF exists
          THEN pc' = [pc EXCEPT ![r] = "readdir"] /\ UNCHANGED ret
          ELSE Respond(r, [status |-> 200, imported |-> FALSE, count |-> 0])
    /\ UNCHANGED <<args, documents, matches>>

\* from await fs.readdir(pdfDir) to the first await extractTextFromPDF(filePath)
ReadFolder(r) ==
    /\ pc[r] = "readdir"
    /\ args' = [args EXCEPT ![r].next = 1]
    /\ pc' = [pc EXCEPT ![r] = "extract"]
    /\ UNCHANGED <<ret, documents, matches>>

\* the body of the loop over pdfFiles after its await: the file is stored, or
\* the extraction threw; then the next file, or the end of the import
ImportFile(r) ==
    /\ pc[r] = "extract"
    /\ args[r].kind = "search"
    /\ \E extracted \in BOOLEAN :
          LET filename == PdfFolder[args[r].next]
              document == storedFile(uuidv4(r, args[r].next), filename, "auto-imported")
              importedCount == args[r].importedCount + (IF extracted THEN 1 ELSE 0)
          IN  /\ documents' = IF extracted THEN Append(documents, document) ELSE documents
              /\ matches' = IF extracted THEN Append(matches, document) ELSE matches
              /\ IF args[r].next < Len(PdfFolder)
                 THEN /\ args' = [args EXCEPT ![r].next = @ + 1,
                                              ![r].importedCount = importedCount]
                      /\ UNCHANGED <<pc, ret>>
                 ELSE /\ args' = [args EXCEPT ![r].importedCount = importedCount]
                      /\ Respond(r, [status |-> 200, imported |-> TRUE,
                                     count |-> importedCount])

NextSession ==
    \E r \in Requests :
        \/ DeleteLookup(r)
        \/ DeleteSplice(r)
        \/ UploadReceive(r)
        \/ UploadStore(r)
        \/ AutoImportIfNeeded(r)
        \/ AccessFolder(r)
        \/ ReadFolder(r)
        \/ ImportFile(r)

SpecSession == InitSession /\ [][NextSession]_vars

\* the ids of the entries of an array
IdsOf(array) == {array[k].id : k \in 1..Len(array)}

\* request r, a DELETE, removes its entry and responds with success
DeletesNow(r) ==
    pc[r] = "unlink" /\ pc'[r] = "responded" /\ ret'[r].status = 200

\* C27: a successful delete of id X removes the entry with id X, and no
\* other entry, from documents and from uploadedFiles, and the two arrays
\* hold the same ids at all times
C27_DeleteRemovesItsDocument ==
    /\ [](IdsOf(documents) = IdsOf(matches))
    /\ [][\A r \in Requests :
            DeletesNow(r) =>
                /\ args[r].documentId \in IdsOf(documents)
                /\ IdsOf(documents') = IdsOf(documents) \ {args[r].documentId}
                /\ IdsOf(matches') = IdsOf(matches) \ {args[r].documentId}
                /\ Len(documents') = Len(documents) - 1]_vars

\* the number of entries of documents for the file
TimesStored(filename) ==
    Cardinality({k \in 1..Len(documents) : documents[k].originalName = filename})

\* C28: the auto-import starts only for a session without documents, and no
\* file of the import folder is stored in the documents of the session more
\* than once
C28_ImportedAtMostOnce ==
    /\ [](\A k \in 1..Len(PdfFolder) : TimesStored(PdfFolder[k]) <= 1)
    /\ [][\A r \in Requests :
            (pc[r] = "request" /\ pc'[r] = "access") => Len(documents) = 0]_vars

(***************************************************************************)
(* Calls of AIService.generateResponse.  args holds the two API keys of    *)
(* the service and the arguments; matches is the list of the calls made to *)
(* the providers and to the fallback, in order.                            *)
(***************************************************************************)
MaxAiResults == 2

preferredProvider == "openai"

ApiKeys == {Null, "key"}

AiQueries == {"oil filter", "pump"}

AiResultPool ==
    {[partNo |-> "RE508960", partName |-> "Oil filter", location |-> [pageNumber |-> 214]],
     [partNo |-> Null, partName |-> "Oil filter", location |-> [pageNumber |-> 214]],
     [partNo |-> "AB1234", partName |-> "Pump", location |-> [pageNumber |-> 0]]}

\* the line of the fallback text for the result at position k
fallbackLine(result, k) ==
    toString(k) \o ". "
    \o (IF result.partNo # Null
        THEN "**" \o result.partNo \o "** - " \o result.partName
        ELSE result.partName)
    \o (IF result.location.pageNumber # 0
        THEN " (Page " \o toString(result.location.pageNumber) \o ")" ELSE "")
    \o NL

generateFallbackResponse(query, searchResults) ==
    IF Len(searchResults) > 0
    THEN [text |-> "AI service unavailable after retries. Falling back to basic search results for \""
                   \o query \o "\":" \o NL \o NL
                   \o join([k \in 1..Len(searchResults) |->
                               fallbackLine(searchResults[k], k)], "")
                   \o NL \o "**Need more details?** Ask about installation, specifications, or maintenance intervals. Try your query again later.",
          provider |-> "Fallback System"]
    ELSE [text |-> "AI service unavailable after retries. Couldn't find any parts matching \""
                   \o query \o "\" in your manual. Try using different terms like \"filter\", \"oil\", \"engine\", or check the spelling.",
          provider |-> "Fallback System"]

\* no response yet
NoResponse == [text |-> Null, provider |-> Null]

InitAi ==
    /\ pc = "generateResponse"
    /\ \E openaiApiKey \in ApiKeys, xaiApiKey \in ApiKeys, q \in AiQueries,
          results \in SeqsUpTo(AiResultPool, MaxAiResults) :
          args = [openaiApiKey |-> openaiApiKey, xaiApiKey |-> xaiApiKey,
                  query |-> q, searchResults |-> results]
    /\ ret = NoResponse
    /\ documents = <<>>
    /\ matches = <<>>

\* generateResponse up to the await of the provider's call, or, without a
\* key, to its return
GenerateResponse ==
    /\ pc = "generateResponse"
    /\ IF args.openaiApiKey # Null /\ preferredProvider = "openai"
       THEN /\ pc' = "callOpenAI"
            /\ matches' = Append(matches, "callOpenAI")
            /\ UNCHANGED ret
       ELSE IF args.xaiApiKey # Null
       THEN /\ pc' = "callXAI"
            /\ matches' = Append(matches, "callXAI")
            /\ UNCHANGED ret
       ELSE /\ pc' = "returned"
            /\ matches' = Append(matches, "generateFallbackResponse")
            /\ ret' = generateFallbackResponse(args.query, args.searchResults)
    /\ UNCHANGED <<args, documents>>

\* the provider answers, or its call throws once the retries are used up and
\* the catch block returns the fallback response
ProviderSettles(provider) ==
    \E answered \in BOOLEAN :
        IF answered
        THEN /\ ret' = [text |-> "answer", provider |-> provider]
             /\ UNCHANGED matches
        ELSE /\ ret' = generateFallbackResponse(args.query, args.searchResults)
             /\ matches' = Append(matches, "generateFallbackResponse")

CallOpenAI ==
    /\ pc = "callOpenAI"
    /\ ProviderSettles("OpenAI GPT-3.5")
    /\ pc' = "returned"
    /\ UNCHANGED <<args, documents>>

CallXAI ==
    /\ pc = "callXAI"
    /\ ProviderSettles("Grok (XAI)")
    /\ pc' = "returned"
    /\ UNCHANGED <<args, documents>>

NextAi == GenerateResponse \/ CallOpenAI \/ CallXAI

SpecAi == InitAi /\ [][NextAi]_vars

\* C29: generateResponse returns a response object in every case, and with
\* both keys configured the fallback response is produced only after the
\* OpenAI call and then the XAI call were made
C29_XaiBeforeFallback ==
    pc = "returned" =>
        /\ ret # NoResponse
        /\ ret.provider \in {"OpenAI GPT-3.5", "Grok (XAI)", "Fallback System"}
        /\ (/\ args.openaiApiKey # Null
            /\ args.xaiApiKey # Null
            /\ ret.provider = "Fallback System")
              => matches = <<"callOpenAI", "callXAI", "generateFallbackResponse">>

(***************************************************************************)
(* Calls of PDFImageService.convertPageToImage.  The calls run from one    *)
(* await to the next and interleave at their awaits; pc, args and ret are  *)
(* functions of the call, matches is imageCache, a function of the cache   *)
(* keys.  What a call returns is written as a record: an image URL has the *)
(* type "image", null is NoImage.                                          *)
(***************************************************************************)
MaxCalls == 2

Calls == 1..MaxCalls

\* the last fallback attempt
MaxAttempts == 3

ImageDocuments == <<[id |-> "doc", fileName |-> "310SK-PC11112.pdf"]>>

ImagePages == {1, 214}

ImageDocIds == {"doc", "none"}

NoImage == [type |-> Null, imageUrl |-> "", pdfInfo |-> NoPdfInfo]

\* `${sessionId}_${docId}_${pageNumber}`
cacheKey(sessionId, docId, pageNumber) ==
    sessionId \o "_" \o docId \o "_" \o toString(pageNumber)

\* mutant: the result is not stored
imageCacheSet_Dropped(imageCache, key, value) == imageCache

\* this.imageCache.set(cacheKey, value)
imageCacheSet(imageCache, key, value) == (key :> value) @@ imageCache

\* `/page-images/page_${pageNumber}${kind}_${Date.now()}.png`
imageUrl(pageNumber, kind, now) ==
    [type |-> "image",
     imageUrl |-> "/page-images/page_" \o toString(pageNumber) \o kind \o "_"
                  \o toString(now) \o ".png",
     pdfInfo |-> NoPdfInfo]

\* what createSimplePageReference returns if the image is written
createSimplePageReference(pageNumber, sessionId, docId, now, docs) ==
    [type |-> "simple_reference",
     imageUrl |-> imageUrl(pageNumber, "_reference", now).imageUrl,
     pdfInfo |-> IF \E d \in 1..Len(docs) : docs[d].id = docId
                 THEN [pdfUrl |-> "/pdfs/"
                                  \o docs[CHOOSE d \in 1..Len(docs) :
                                            /\ docs[d].id = docId
                                            /\ \A e \in 1..(d - 1) : docs[e].id # docId].fileName
                                  \o "#page=" \o toString(pageNumber),
                       pageNumber |-> pageNumber,
                       type |-> "pdf"]
                 ELSE NoPdfInfo]

\* the outcomes of rendering the page of the document: without the document
\* the attempt throws
RenderOutcomes(docs, docId) ==
    IF \E d \in 1..Len(docs) : docs[d].id = docId
    THEN {"rendered", "failed"} ELSE {"failed"}

NoCall == [sessionId |-> "", docId |-> "", pageNumber |-> 0, attempt |-> 0,
           attempts |-> 0, primaryFailed |-> FALSE]

InitImage ==
    /\ pc = [c \in Calls |-> "idle"]
    /\ args = [c \in Calls |-> NoCall]
    /\ ret = [c \in Calls |-> NoImage]
    /\ documents = ImageDocuments
    /\ matches = <<>>

\* call c returns value
Return(c, value) ==
    /\ pc' = [pc EXCEPT ![c] = "returned"]
    /\ ret' = [ret EXCEPT ![c] = value]

KeyOf(c) == cacheKey(args[c].sessionId, args[c].docId, args[c].pageNumber)

\* convertPageToImage up to its first await: the cached value is returned,
\* or the primary rendering begins
ConvertPageToImage(c) ==
    /\ pc[c] = "idle"
    /\ \E docId \in ImageDocIds, pageNumber \in ImagePages :
          /\ args' = [args EXCEPT ![c] = [NoCall EXCEPT !.sessionId = "s1",
                                                        !.docId = docId,
                                                        !.pageNumber = pageNumber]]
          /\ IF cacheKey("s1", docId, pageNumber) \in DOMAIN matches
             THEN Return(c, matches[cacheKey("s1", docId, pageNumber)])
             ELSE pc' = [pc EXCEPT ![c] = "primary"] /\ UNCHANGED ret
    /\ UNCHANGED <<documents, matches>>

\* the primary rendering settles: the image is written, stored and returned;
\* or Adobe gives a reference of page 214, which is returned; or an error is
\* thrown and the first fallback attempt begins
PrimaryRender(c) ==
    /\ pc[c] = "primary"
    /\ \E outcome \in RenderOutcomes(documents, args[c].docId)
                      \cup (IF /\ args[c].pageNumber = 214
                               /\ "rendered" \in RenderOutcomes(documents, args[c].docId)
                            THEN {"adobe"} ELSE {}) :
          IF outcome = "rendered"
          THEN /\ matches' = imageCacheSet(matches, KeyOf(c),
                                           imageUrl(args[c].pageNumber, "", c))
               /\ Return(c, imageUrl(args[c].pageNumber, "", c))
               /\ UNCHANGED args
          ELSE IF outcome = "adobe"
          THEN /\ Return(c, [type |-> "adobe_extract", imageUrl |-> "",
                             pdfInfo |-> NoPdfInfo])
               /\ UNCHANGED <<args, matches>>
          ELSE /\ args' = [args EXCEPT ![c].attempt = 1, ![c].primaryFailed = TRUE]
               /\ pc' = [pc EXCEPT ![c] = "fallback"]
               /\ UNCHANGED <<ret, matches>>
    /\ UNCHANGED documents

\* a fallback attempt settles: its image is stored and returned; or it
\* throws, and the next attempt begins if attempt < 3, the simple page
\* reference is made otherwise
FallbackRender(c) ==
    /\ pc[c] = "fallback"
    /\ \E outcome \in RenderOutcomes(documents, args[c].docId) :
          LET fallbackResult ==
                imageUrl(args[c].pageNumber,
                         "_fallback" \o toString(args[c].attempt), c)
          IN  IF outcome = "rendered"
              THEN /\ matches' = imageCacheSet(matches, KeyOf(c), fallbackResult)
                   /\ Return(c, fallbackResult)
                   /\ args' = [args EXCEPT ![c].attempts = @ + 1]
              ELSE /\ args' = [args EXCEPT
                                 ![c].attempts = @ + 1,
                                 ![c].attempt = IF @ < MaxAttempts THEN @ + 1 ELSE @]
                   /\ pc' = [pc EXCEPT ![c] = IF args[c].attempt < MaxAttempts
                                               THEN "fallback" ELSE "reference"]
                   /\ UNCHANGED <<ret, matches>>
    /\ UNCHANGED documents

\* createSimplePageReference of the third attempt settles: its reference is
\* the fallback result, stored and returned; or it is null, and
\* convertPageToImage makes the reference itself
SimpleReference(c) ==
    /\ pc[c] = "reference"
    /\ \E written \in BOOLEAN :
          LET fallbackResult ==
                createSimplePageReference(args[c].pageNumber, args[c].sessionId,
                                          args[c].docId, c, documents)
          IN  IF written
              THEN /\ matches' = imageCacheSet(matches, KeyOf(c), fallbackResult)
                   /\ Return(c, fallbackResult)
              ELSE /\ pc' = [pc EXCEPT ![c] = "lastReference"]
                   /\ UNCHANGED <<ret, matches>>
    /\ UNCHANGED <<args, documents>>

\* createSimplePageReference of convertPageToImage settles: the reference,
\* or null, is returned
LastReference(c) ==
    /\ pc[c] = "lastReference"
    /\ \E written \in BOOLEAN :
          Return(c, IF written
                    THEN createSimplePageReference(args[c].pageNumber, args[c].sessionId,
                                                   args[c].docId, c, documents)
                    ELSE NoImage)
    /\ UNCHANGED <<args, documents, matches>>

\* an await of call c settles
Settles(c) ==
    PrimaryRender(c) \/ FallbackRender(c) \/ SimpleReference(c) \/ LastReference(c)

NextImage ==
    \E c \in Calls :
        \/ ConvertPageToImage(c)
        \/ PrimaryRender(c)
        \/ FallbackRender(c)
        \/ SimpleReference(c)
        \/ LastReference(c)

\* every promise a call awaits settles
SpecImage ==
    InitImage /\ [][NextImage]_vars /\ \A c \in Calls : WF_vars(Settles(c))

====
